---- MODULE Spec2Model ----
(***************************************************************************)
(* Authentication and session-token lifecycle of the media-sharing         *)
(* backend: the User store (src/src/models/user.model.js) and the request  *)
(* handlers of src/src/controllers/user.controllers.js.  Every handler is  *)
(* cut at its awaits on the store, so that concurrent requests interleave  *)
(* exactly where the event loop lets them.                                 *)
(***************************************************************************)
EXTENDS Integers, FiniteSets, Sequences, TLC

\* ---------------------------------------------------------------- bounds
\* Requests started in one behaviour.
MaxRequests == 4
\* Last value of the clock, in whole seconds (the unit of iat and exp).
MaxTime == 2

\* ------------------------------------------------------ program constants
\* REFRESH_TOKEN_EXPIRY and ACCESS_TOKEN_EXPIRY, in seconds.
RefreshExpiry == 2
AccessExpiry == 1
\* bcrypt.hash(this.password, 10)
SaltRounds == 10

\* ------------------------------------------------------------ input sets
Slots == {1, 2}
Ids == {1, 2}
Usernames == {"alice", "bob"}
Emails == {"a@x.com", "b@x.com"}
Passwords == {"secret1", "secret2"}
Absent == "<absent>"

VARIABLES
    now,          \* the clock, seconds
    db,           \* the users collection: Ids -> document, or NoDoc
    stripsUndef,  \* the installed mongoose drops undefined keys of an update
    req,          \* the request slots: a request in flight or its response
    nreq,         \* requests started so far
    handed,       \* history: refresh tokens handed to clients in 200 responses
                  \* (each with the access token signed beside it)
    exchanged,    \* history: refresh tokens a refresh has succeeded with
    superseded,   \* history: tokens handed out before a login that succeeded
    loggedOut,    \* history: identities logged out and not logged in since
    pwChanged,    \* history: per identity, <<old, new>> of its last successful
                  \* change of password (<<>> if none)
    store,        \* the videos, comments, tweets and playlists collections
    likes,        \* the likes collection: a set of documents
    subscriptions \* the subscriptions collection: a set of documents

vars == <<now, db, stripsUndef, req, nreq, handed, exchanged, superseded,
          loggedOut, pwChanged, store, likes, subscriptions>>
hist == <<handed, exchanged, superseded, loggedOut, pwChanged>>
media == <<store, likes, subscriptions>>
users == <<db, stripsUndef, hist>>

\* ----------------------------------------------------------------- tokens
\* A signed compact token is a function of its class (the secret that signed
\* it), its payload, iat and exp: jwt.sign adds nothing else, so two tokens
\* signed for one user in one second are the same string.
Tok(cls, id, iat, exp) == [cls |-> cls, id |-> id, iat |-> iat, exp |-> exp]
NoTok == Tok("absent", 0, 0, 0)       \* no token sent
Garbage == Tok("garbage", 0, 0, 0)    \* undecodable, or signed with no known secret
Undef == Tok("undefined", 0, 0, 0)    \* the document has no refreshToken field
Null == Tok("null", 0, 0, 0)          \* refreshToken: null
Empty == Tok("empty", 0, 0, 0)        \* a cookie or body field sent as ""

\* Faulty variant: the refresh token signed with the access secret.
generateRefreshTokenAccessSecret(id, t) == Tok("access", id, t, t + RefreshExpiry)
\* jwt.sign({_id}, REFRESH_TOKEN_SECRET, {expiresIn: REFRESH_TOKEN_EXPIRY})
generateRefreshToken(id, t) == Tok("refresh", id, t, t + RefreshExpiry)
\* jwt.sign({_id, email, username, fullname}, ACCESS_TOKEN_SECRET, ...): the
\* profile claims are a function of the identity and are left out here.
generateAccessToken(id, t) == Tok("access", id, t, t + AccessExpiry)

\* Faulty variants: the expiry is not looked at; any of the two secrets passes.
JwtVerifyNoExpiry(tok, cls, t) ==
    IF tok.cls # cls THEN "invalid signature" ELSE "ok"
JwtVerifyAnySecret(tok, cls, t) ==
    IF tok.cls \notin {"access", "refresh"} THEN "invalid signature"
    ELSE IF t >= tok.exp THEN "jwt expired"
    ELSE "ok"
\* jwt.verify(token, secret): the signature first, then the expiry.
JwtVerify(tok, cls, t) ==
    IF tok.cls # cls THEN "invalid signature"
    ELSE IF t >= tok.exp THEN "jwt expired"
    ELSE "ok"

\* ------------------------------------------------------------ credentials
\* bcrypt: a one-way hash; compare re-derives it from the candidate.
Hash(pw) == <<"bcrypt", SaltRounds, pw>>
\* Faulty variant: any password passes.
isPasswordCorrectAlways(pw, hashed) == TRUE
isPasswordCorrect(pw, hashed) == hashed = Hash(pw)

\* Faulty variant: the hook hashes also when the password is not modified, and
\* so hashes the stored hash again.
preSaveAlways(password, isModified) ==
    IF isModified THEN Hash(password) ELSE Hash("<hash>")
\* userSchema.pre("save"): if(!this.isModified("password")) return next();
\* this.password = await bcrypt.hash(this.password, 10)
preSave(password, isModified) ==
    IF ~isModified THEN password ELSE Hash(password)

\* Faulty variant: the letter case is kept.
LowerNot(s) == s
\* schema option lowercase: true (also applied to query filters and updates),
\* and username.toLowerCase() in registerUser
Lower(s) == IF s = "Alice" THEN "alice"
            ELSE IF s = "A@X.COM" THEN "a@x.com"
            ELSE s

\* ------------------------------------------------------------------ store
NoDoc == [username |-> Absent, email |-> Absent, password |-> <<"none", 0, Absent>>,
          refreshToken |-> Undef, exists |-> FALSE]
\* Faulty variant: an identity is found only while it has a session.
ExistsWithSession(id) ==
    id \in Ids /\ db[id].exists /\ db[id].refreshToken \notin {Undef, Null}
Exists(id) == id \in Ids /\ db[id].exists
Registered == {i \in Ids : db[i].exists}

\* The paths of a document that a response can carry.
DocFields == {"username", "email", "password", "refreshToken"}
\* Faulty variants: the password is not left out; the token is not left out.
SelectKeepsPassword(doc, excluded) ==
    {f \in DocFields \ (excluded \ {"password"}) :
        f = "refreshToken" => doc.refreshToken # Undef}
SelectKeepsToken(doc, excluded) ==
    {f \in DocFields \ (excluded \ {"refreshToken"}) :
        f = "refreshToken" => doc.refreshToken # Undef}
\* .select("-a -b") and the serialization of the result: the paths of the
\* document in the body (an undefined path is not serialized, null is).
Select(doc, excluded) ==
    {f \in DocFields \ excluded : f = "refreshToken" => doc.refreshToken # Undef}

\* Faulty variant: the lookup finds nothing.
FindOneNone(username, email) == 0
\* User.findOne({$or: [{username}, {email}]}): the first match in _id order, 0 if none
FindOne(username, email) ==
    LET m == {i \in Registered : \/ db[i].username = Lower(username)
                                 \/ db[i].email = Lower(email)}
    IN IF m = {} THEN 0 ELSE CHOOSE i \in m : \A j \in m : i <= j

\* The documents of the videos, comments, tweets and playlists collections.
\* made: the _id was given out (an ObjectId is never given out twice);
\* content: title, description, name or text; videos: of a playlist.
Collections == {"videos", "comments", "tweets", "playlists"}
EntIds == {1}
NoEnt == [made |-> FALSE, exists |-> FALSE, owner |-> 0, content |-> Absent,
          isPublished |-> FALSE, videos |-> <<>>]

\* ------------------------------------------------------------------ slots
\* Faulty variant: the cookies are never marked secure.
CookieOptionsNeverSecure(protocol) == [httpOnly |-> TRUE, secure |-> FALSE]
\* const options = {httpOnly: true, secure: req.protocol === 'https'}
CookieOptions(protocol) == [httpOnly |-> TRUE, secure |-> (protocol = "https")]
\* res.cookie("accessToken", ..., options).cookie("refreshToken", ..., options)
SetCookies(access, refresh, options) ==
    [accessToken |-> access, refreshToken |-> refresh,
     httpOnly |-> options.httpOnly, secure |-> options.secure]
NoCookies == SetCookies(NoTok, NoTok, [httpOnly |-> FALSE, secure |-> FALSE])

\* status: the HTTP status; statusCode: that of the ApiResponse or ApiError
\* object behind the response (0: none); flag: isLiked or subscribed in the
\* body; user: the paths of the identity object in the body ({}: none).
NoResp == [status |-> 0, statusCode |-> 0, msg |-> "", flag |-> "n/a",
           accessToken |-> NoTok, refreshToken |-> NoTok,
           user |-> {}, cookies |-> NoCookies]
\* res.status(n).json(new ApiResponse(n, ...)), and throw new ApiError(n, msg):
\* with no error middleware in app.js, Express answers with err.statusCode.
Resp(status, msg) ==
    [NoResp EXCEPT !.status = status, !.statusCode = status, !.msg = msg]
\* An error that is not an ApiError carries no statusCode: Express answers 500.
Thrown(msg) == [NoResp EXCEPT !.status = 500, !.msg = msg]
\* kind, pc, uid, the inputs, seen and the new tokens are the handler's
\* locals; the other fields are history, written for the properties only.
Idle == [kind |-> "none", pc |-> "idle", uid |-> 0,
         username |-> Absent, email |-> Absent, password |-> Absent,
         newPassword |-> Absent,
         inc |-> NoTok, seen |-> Undef, newAccess |-> NoTok, newRefresh |-> NoTok,
         resp |-> NoResp,
         with |-> {}, solo |-> FALSE, pwOk |-> "n/a", matched |-> "n/a",
         wasStored |-> FALSE, fresh |-> FALSE, reuse |-> FALSE, stale |-> FALSE,
         afterLogout |-> FALSE, loser |-> FALSE, lostRace |-> FALSE,
         clash |-> "none", expect |-> "n/a", afterChange |-> FALSE,
         known |-> "n/a", fault |-> FALSE, protocol |-> "n/a",
         sent |-> <<NoTok, NoTok>>,
         target |-> 0, video |-> 0, content |-> Absent, local |-> <<>>,
         isOwner |-> "n/a", before |-> "n/a",
         valid |-> "n/a", avatarCase |-> "n/a", expired |-> FALSE]

InFlight(s) == req[s].pc \notin {"idle", "done"}
\* A new request takes the lowest slot that holds no request in flight.
FreeSlot(s) == /\ ~InFlight(s)
               /\ \A s2 \in Slots : s2 < s => InFlight(s2)

Init ==
    /\ now = 0
    /\ db = [i \in Ids |-> NoDoc]
    /\ stripsUndef \in BOOLEAN
    /\ req = [s \in Slots |-> Idle]
    /\ nreq = 0
    /\ handed = {}
    /\ exchanged = {}
    /\ superseded = {}
    /\ loggedOut = {}
    /\ pwChanged = [i \in Ids |-> <<>>]
    /\ store = [c \in Collections |-> [i \in EntIds |-> NoEnt]]
    /\ likes = {}
    /\ subscriptions = {}

\* The clock moves on by one second.
Tick ==
    /\ now < MaxTime
    /\ now' = now + 1
    /\ UNCHANGED <<media, db, stripsUndef, req, nreq, hist>>

\* The response leaves: the slot keeps it until the next request takes the slot.
Finish(r, resp) ==
    [r EXCEPT !.pc = "done", !.resp = resp,
              !.username = Absent, !.email = Absent, !.password = Absent,
              !.newPassword = Absent, !.content = Absent, !.local = <<>>,
              !.seen = Undef, !.newAccess = NoTok, !.newRefresh = NoTok]

\* A request arrives in slot s; on is the identity it is about (0: none).
\* History only: "with" is the set of slots whose request was in flight when
\* it arrived; it is alone ("solo") on its identity if no request on that
\* identity is in flight, and those in flight no longer are.
Arrive(s, kind, on, fields) ==
    LET flying == {o \in Slots : o # s /\ InFlight(o)}
        others == {o \in flying : req[o].uid = on /\ on # 0}
        r == [fields EXCEPT !.kind = kind, !.with = flying,
                            !.solo = (on # 0 /\ others = {})]
    IN [o \in Slots |->
          IF o = s THEN r
          ELSE [req[o] EXCEPT !.with = @ \ {s},
                              !.solo = IF o \in others THEN FALSE ELSE @]]

CanStart(s) == FreeSlot(s) /\ nreq < MaxRequests

\* History only: the spellings of a name that differ in letter case alone.
Spellings(n) == IF n \in {"alice", "Alice"} THEN {"alice", "Alice"}
                ELSE IF n \in {"a@x.com", "A@X.COM"} THEN {"a@x.com", "A@X.COM"}
                ELSE {n}
\* History only: how a registration with all its fields collides with the
\* identities in the store when it arrives.
Clash(username, email) ==
    IF Absent \in {username, email} THEN "none"
    ELSE IF \E i \in Ids : /\ db[i].exists
                            /\ (db[i].username = username \/ db[i].email = email)
    THEN "exact"
    ELSE IF \E i \in Ids : db[i].exists /\ db[i].username \in Spellings(username)
    THEN "case"
    ELSE "none"

\* ------------------------------------------------------------ registerUser
\* Faulty variant: the blanks are kept.
TrimNot(str) == str
\* String.prototype.trim
Trim(str) == IF str = "  " THEN "" ELSE str
\* line 78: field === undefined || field === null || field?.trim() === ""
Missing(field) == field = Absent \/ Trim(field) = ""
\* History only: the values of a field that is missing or empty once trimmed.
EmptyValues == {Absent, "", "  "}

\* lines 73-90: the fields are required; then User.findOne({$or: [{username},
\* {email}]}).  Nothing before the findOne reads the clock or the store, so
\* the request is taken to arrive when its findOne runs.
registerUserStart(s, fullName, username, email, password) ==
    /\ CanStart(s)
    /\ Cardinality(Registered)
         + Cardinality({o \in Slots : InFlight(o) /\ req[o].kind = "register"})
         < Cardinality(Ids)
    /\ nreq' = nreq + 1
    /\ LET f == [Idle EXCEPT !.username = username, !.email = email,
                             !.password = password, !.pc = "regCreate",
                             !.valid = IF {fullName, username, email, password}
                                            \cap EmptyValues = {}
                                       THEN "yes" ELSE "no",
                             !.clash = IF {fullName, username, email, password}
                                            \cap EmptyValues # {}
                                       THEN "none"
                                       ELSE Clash(username, email)]
           arrived == Arrive(s, "register", 0, f)
       IN req' = IF \E field \in {fullName, email, username, password} : Missing(field)
                 THEN [arrived EXCEPT ![s] = Finish(@, Resp(400, "All fields are required"))]
                 ELSE IF FindOne(username, email) # 0
                 THEN [arrived EXCEPT ![s] =
                         Finish(@, Resp(409, "User with email or username already exists"))]
                 ELSE arrived
    /\ UNCHANGED <<media, now, db, stripsUndef, hist>>

\* Faulty variant: no unique index.
DuplicateNever(username, email) == FALSE
\* The unique indexes of username and email (lowercased by the schema).
Duplicate(username, email) ==
    \E i \in Registered : \/ db[i].username = Lower(username)
                          \/ db[i].email = Lower(email)

\* User.create: the schema's setters, and the pre-save hook hashing the password.
NewDoc(username, email, password) ==
    [username |-> Lower(username), email |-> Lower(email),
     password |-> preSave(password, TRUE), refreshToken |-> Undef, exists |-> TRUE]

\* lines 92-138: the avatar, the uploads, User.create and the read back.
\* files: what multer found; uploaded: whether the object store took the avatar.
registerUserCreate(s, files, uploaded) ==
    /\ req[s].kind = "register" /\ req[s].pc = "regCreate"
    /\ LET r == req[s]
           id == CHOOSE i \in Ids \ Registered : \A j \in Ids \ Registered : i <= j
           \* history: no file at all, no avatar among the files, or an
           \* avatar whose upload failed
           how == IF files = "avatar" /\ uploaded THEN "n/a" ELSE "unusable"
           \* history: an identity created since the request arrived collides
           race == IF \E i \in Ids : /\ db[i].exists
                                      /\ \/ db[i].username \in Spellings(r.username)
                                         \/ db[i].email \in Spellings(r.email)
                   THEN "race" ELSE r.clash
       IN IF files = "noAvatar"
          THEN \* req.files?.avatar[0] with no avatar key: a TypeError, hence 500
               /\ req' = [req EXCEPT ![s] =
                            Finish([@ EXCEPT !.avatarCase = how], Thrown("TypeError"))]
               /\ db' = db
          ELSE IF files = "none" \/ ~uploaded
          THEN /\ req' = [req EXCEPT ![s] =
                            Finish([@ EXCEPT !.avatarCase = how],
                                   Resp(400, "Avatar file is required"))]
               /\ db' = db
          ELSE IF Duplicate(r.username, r.email)
          THEN \* E11000 from the unique index: not an ApiError, hence 500
               /\ req' = [req EXCEPT ![s] =
                            Finish([@ EXCEPT !.clash = race],
                                   Thrown("E11000 duplicate key"))]
               /\ db' = db
          ELSE /\ db' = [db EXCEPT ![id] = NewDoc(r.username, r.email, r.password)]
               /\ req' = [req EXCEPT ![s] =
                            Finish([@ EXCEPT !.uid = id],
                                   \* res.status(201).json(new ApiResponse(200, ...))
                                   [Resp(201, "User registered Successfully") EXCEPT
                                      !.statusCode = 200,
                                      !.user = Select(db'[id], {"password", "refreshToken"})])]
    /\ UNCHANGED <<media, now, stripsUndef, nreq, hist>>

\* --------------------------------------------------------------- loginUser
\* lines 160-182: username or email is required; findOne; then bcrypt.compare
\* on the document read.  Nothing before the findOne reads the clock or the
\* store, so the request is taken to arrive when its findOne runs.
\* pwOk (history): whether the password sent is the identity's password.
loginUserStart(s, username, email, password) ==
    /\ CanStart(s)
    /\ nreq' = nreq + 1
    /\ LET id == FindOne(username, email)
           right == IF id # 0 /\ db[id].password = Hash(password)
                    THEN "yes" ELSE "no"
           \* history: the password sent against the last change of password
           ch == IF id = 0 THEN <<>> ELSE pwChanged[id]
           was == IF ch = <<>> \/ password = Absent THEN "n/a"
                  ELSE IF ch[1] = ch[2] THEN "n/a"
                  ELSE IF password = ch[2] THEN "new"
                  ELSE IF password = ch[1] THEN "old"
                  ELSE "n/a"
           \* history: whether the name sent is that of an identity in the store
           who == IF username = Absent /\ email = Absent THEN "n/a"
                  ELSE IF \E i \in Ids : /\ db[i].exists
                                          /\ \/ db[i].username \in Spellings(username)
                                             \/ db[i].email \in Spellings(email)
                  THEN "yes" ELSE "no"
           f == [Idle EXCEPT !.pc = "gen", !.uid = id, !.expect = was, !.known = who]
           arrived == Arrive(s, "login", id, f)
       IN req' =
            IF username = Absent /\ email = Absent
            THEN [arrived EXCEPT ![s] =
                    Finish([@ EXCEPT !.uid = 0], Resp(400, "username or email is required"))]
            ELSE IF id = 0
            THEN [arrived EXCEPT ![s] = Finish(@, Resp(404, "User does not exist"))]
            ELSE IF password = Absent
            THEN \* bcrypt.compare(undefined, hash) throws a plain Error
                 [arrived EXCEPT ![s] =
                    Finish(@, Thrown("data and hash arguments required"))]
            ELSE IF ~isPasswordCorrect(password, db[id].password)
            THEN [arrived EXCEPT ![s] =
                    Finish([@ EXCEPT !.pwOk = right], Resp(401, "Invalid credentials"))]
            ELSE [arrived EXCEPT ![s] = [@ EXCEPT !.pwOk = right]]
    /\ UNCHANGED <<media, now, db, stripsUndef, hist>>

\* ------------------------------------------- generateAccessAndRefreshTokens
\* lines 29-41: findById, then both tokens signed and user.refreshToken
\* assigned in the same turn of the event loop; save() is then under way.
generateTokens(s) ==
    /\ req[s].kind \in {"login", "refresh"} /\ req[s].pc = "gen"
    /\ LET id == req[s].uid
       IN req' = [req EXCEPT ![s] =
                    [@ EXCEPT !.seen = db[id].refreshToken,
                              !.newAccess = generateAccessToken(id, now),
                              !.newRefresh = generateRefreshToken(id, now),
                              !.pc = "save"]]
    /\ UNCHANGED <<media, now, db, stripsUndef, nreq, hist>>

\* user.save(): only the paths that changed since the read are written.
\* Faulty variant: the write is lost.
SaveNever(seen, new, stored) == stored
Save(seen, new, stored) == IF new # seen THEN new ELSE stored

\* line 42 (the write lands), then the response of loginUser (lines 188-211)
\* or of refreshAccessToken (lines 300-320); protocol is req.protocol.
saveTokens(s, protocol) ==
    /\ req[s].kind \in {"login", "refresh"} /\ req[s].pc = "save"
    /\ LET r == req[s]
           msg == IF r.kind = "login" THEN "User logged in successfully"
                  ELSE "Access token refreshed"
           \* loginUser line 188: the identity is read back for the body
           body == IF r.kind = "login"
                   THEN Select(db'[r.uid], {"password", "refreshToken"}) ELSE {}
           mine == Finish([r EXCEPT !.protocol = protocol],
                          [status |-> 200, statusCode |-> 200, msg |-> msg,
                           flag |-> "n/a",
                           accessToken |-> r.newAccess,
                           refreshToken |-> r.newRefresh,
                           user |-> body,
                           cookies |-> SetCookies(r.newAccess, r.newRefresh,
                                                  CookieOptions(protocol))])
           \* history: the requests raced with whose write this one overwrites
           Beaten(o) == /\ o # s /\ req[o].pc = "done" /\ req[o].resp.status = 200
                        /\ req[o].kind \in {"login", "refresh"} /\ req[o].uid = r.uid
                        /\ (o \in r.with \/ s \in req[o].with)
                        /\ r.newRefresh # r.seen
       IN /\ db' = [db EXCEPT ![r.uid].refreshToken = Save(r.seen, r.newRefresh, @),
                            \* the pre-save hook, the password not modified
                            ![r.uid].password = preSave(@, FALSE)]
          /\ req' = [o \in Slots |->
                       IF o = s THEN mine
                       ELSE IF Beaten(o) THEN [req[o] EXCEPT !.lostRace = TRUE]
                       ELSE req[o]]
          /\ handed' = handed \cup {r.newRefresh}
          /\ exchanged' = IF r.kind = "refresh" THEN exchanged \cup {r.inc}
                          ELSE exchanged
          /\ superseded' = IF r.kind = "login"
                           THEN superseded \cup {t \in handed : t.id = r.uid}
                           ELSE superseded
          /\ loggedOut' = IF r.kind = "login" THEN loggedOut \ {r.uid} ELSE loggedOut
    /\ UNCHANGED <<media, now, stripsUndef, nreq, pwChanged>>

\* lines 46-49: whatever generateAccessAndRefreshTokens throws becomes
\* ApiError(500); loginUser lets it through, and the catch of
\* refreshAccessToken (lines 321-324) turns it into ApiError(401) with the
\* same message.
TokenFailure(kind) ==
    Resp(IF kind = "refresh" THEN 401 ELSE 500,
         "Something went wrong while generating refresh and access token")

\* lines 37-38: jwt.sign throws (no secret, bad expiry): nothing is written.
generateTokensFails(s) ==
    /\ req[s].kind \in {"login", "refresh"} /\ req[s].pc = "gen"
    /\ req' = [req EXCEPT ![s] =
                 Finish([@ EXCEPT !.fault = TRUE], TokenFailure(req[s].kind))]
    /\ UNCHANGED <<media, now, db, stripsUndef, nreq, hist>>

\* line 42: user.save() rejects (the store is unavailable): nothing is written.
saveTokensFails(s) ==
    /\ req[s].kind \in {"login", "refresh"} /\ req[s].pc = "save"
    /\ req' = [req EXCEPT ![s] =
                 Finish([@ EXCEPT !.fault = TRUE], TokenFailure(req[s].kind))]
    /\ UNCHANGED <<media, now, db, stripsUndef, nreq, hist>>

\* ------------------------------------------------------ refreshAccessToken
\* Faulty variants: no comparison; a comparison of the identities only.
TokensMatchAlways(incoming, stored) == TRUE
TokensMatchIdOnly(incoming, stored) == incoming.id = stored.id
\* line 296: incomingRefreshToken !== user?.refreshToken
TokensMatch(incoming, stored) == incoming = stored

\* The refresh token handed out last for an identity (NoTok if none).
LastHanded(id) ==
    LET mine == {t \in handed : t.id = id}
    IN IF mine = {} THEN NoTok
       ELSE CHOOSE t \in mine : \A t2 \in mine : t2.iat <= t.iat

\* Faulty variant: the body field is looked at first.
IncomingRefreshTokenBodyFirst(cookie, body) ==
    IF body \notin {NoTok, Empty} THEN body ELSE cookie
\* line 273: req.cookies.refreshToken || req.body.refreshToken (an absent and
\* an empty cookie are both falsy)
IncomingRefreshToken(cookie, body) ==
    IF cookie \notin {NoTok, Empty} THEN cookie ELSE body

\* lines 273-285: the token of the request, then jwt.verify.
\* sent (history): the cookie and the body field of the request.
refreshAccessTokenStart(s, cookie, body) ==
    /\ CanStart(s)
    /\ nreq' = nreq + 1
    /\ LET incoming == IncomingRefreshToken(cookie, body)
           v == JwtVerify(incoming, "refresh", now)
           on == IF incoming.cls = "refresh" THEN incoming.id ELSE 0
           f == [Idle EXCEPT
                   !.inc = incoming, !.pc = "refFind", !.sent = <<cookie, body>>,
                   !.uid = IF v = "ok" THEN incoming.id ELSE 0,
                   !.reuse = (incoming \in exchanged),
                   !.stale = (incoming \in superseded),
                   !.afterLogout = (on \in loggedOut /\ incoming = LastHanded(on)),
                   !.loser = (\E o \in Slots : /\ req[o].pc = "done"
                                                /\ req[o].lostRace
                                                /\ req[o].resp.refreshToken = incoming),
                   !.fresh = (now < incoming.exp),
                   !.afterChange = (on # 0 /\ pwChanged[on] # <<>>),
                   !.wasStored = (Exists(on) /\ db[on].refreshToken = incoming)]
           arrived == Arrive(s, "refresh", on, f)
       IN req' = IF incoming \in {NoTok, Empty}
                 THEN [arrived EXCEPT ![s] = Finish(@, Resp(401, "unauthorized request"))]
                 ELSE IF v # "ok"
                 THEN [arrived EXCEPT ![s] = Finish(@, Resp(401, v))]
                 ELSE arrived
    /\ UNCHANGED <<media, now, db, stripsUndef, hist>>

\* lines 288-298: findById, then the comparison with the stored token.
\* matched (history): whether the token sent is the stored one.
refreshAccessTokenFind(s) ==
    /\ req[s].kind = "refresh" /\ req[s].pc = "refFind"
    /\ LET r == req[s]
           same == IF Exists(r.uid) /\ db[r.uid].refreshToken = r.inc
                   THEN "yes" ELSE "no"
       IN req' = [req EXCEPT ![s] =
            IF ~Exists(r.uid) THEN Finish(@, Resp(401, "Invalid refresh token"))
            ELSE IF ~TokensMatch(r.inc, db[r.uid].refreshToken)
            THEN Finish([@ EXCEPT !.matched = same],
                        Resp(401, "Refresh token is expired or used"))
            ELSE [@ EXCEPT !.matched = same, !.pc = "gen"]]
    /\ UNCHANGED <<media, now, db, stripsUndef, nreq, hist>>

\* -------------------------------------------------------------- logoutUser
\* The Auth Gate in front of logoutUser (routes, lines 74-77): the access
\* token is verified and its identity looked up.
verifyJWT(tok, t) ==
    IF tok = NoTok THEN "Unauthorized request"
    ELSE IF JwtVerify(tok, "access", t) # "ok" THEN "Invalid access token"
    ELSE IF ~Exists(tok.id) THEN "Invalid access token"
    ELSE "ok"

\* History only: the access token of a request is one of an identity of the
\* store, rightly signed, and its expiry has passed.
ExpiredAccess(tok) == tok.cls = "access" /\ now >= tok.exp /\ Exists(tok.id)

\* History only: the access token of a request is one of an identity that has
\* logged out and not logged in since.
LoggedOutAccess(tok) == tok.cls = "access" /\ tok.id \in loggedOut

logoutUserStart(s, access) ==
    /\ CanStart(s)
    /\ nreq' = nreq + 1
    /\ LET v == verifyJWT(access, now)
           id == IF v = "ok" THEN access.id ELSE 0
           arrived == Arrive(s, "logout", id,
                             [Idle EXCEPT !.pc = "logoutUpdate", !.uid = id, !.expired = ExpiredAccess(access),
                         !.afterLogout = LoggedOutAccess(access)])
       IN req' = IF v # "ok"
                 THEN [arrived EXCEPT ![s] = Finish(@, Resp(401, v))]
                 ELSE arrived
    /\ UNCHANGED <<media, now, db, stripsUndef, hist>>

\* lines 229-239: findByIdAndUpdate(id, {$set: {refreshToken: undefined}}).
\* A mongoose that drops the undefined keys of an update sends an empty $set;
\* one that does not sends null.
LogoutSet(stored, strips) == IF strips THEN stored ELSE Null

\* lines 229-252
logoutUserUpdate(s) ==
    /\ req[s].kind = "logout" /\ req[s].pc = "logoutUpdate"
    /\ db' = [db EXCEPT ![req[s].uid].refreshToken = LogoutSet(@, stripsUndef)]
    /\ req' = [req EXCEPT ![s] = Finish(@, Resp(200, "User logged Out"))]
    /\ loggedOut' = loggedOut \cup {req[s].uid}
    /\ UNCHANGED <<media, now, stripsUndef, nreq, handed, exchanged, superseded, pwChanged>>

\* --------------------------------------------------- changeCurrentPassword
\* The Auth Gate (routes, lines 79-83), then lines 343-344.
changeCurrentPasswordStart(s, access, oldPassword, newPassword) ==
    /\ CanStart(s)
    /\ nreq' = nreq + 1
    /\ LET v == verifyJWT(access, now)
           id == IF v = "ok" THEN access.id ELSE 0
           f == [Idle EXCEPT !.pc = "pwFind", !.uid = id, !.expired = ExpiredAccess(access),
                         !.afterLogout = LoggedOutAccess(access),
                             !.password = oldPassword, !.newPassword = newPassword]
           arrived == Arrive(s, "changePassword", id, f)
       IN req' = IF v # "ok"
                 THEN [arrived EXCEPT ![s] = Finish(@, Resp(401, v))]
                 ELSE arrived
    /\ UNCHANGED <<media, now, db, stripsUndef, hist>>

\* lines 346-353: findById, then bcrypt.compare of the old password;
\* line 356: user.password = newPassword on the copy read.
changeCurrentPasswordFind(s) ==
    /\ req[s].kind = "changePassword" /\ req[s].pc = "pwFind"
    /\ LET r == req[s]
           \* history: whether the old password sent is the identity's password
           right == IF db[r.uid].password = Hash(r.password) THEN "yes" ELSE "no"
       IN req' = [req EXCEPT ![s] =
            IF r.password = Absent
            THEN \* bcrypt.compare(undefined, hash) throws a plain Error
                 Finish(@, Thrown("data and hash arguments required"))
            ELSE IF ~isPasswordCorrect(r.password, db[r.uid].password)
            THEN Finish([@ EXCEPT !.pwOk = right], Resp(400, "Invalid old password"))
            ELSE [@ EXCEPT !.pc = "pwSave", !.pwOk = right,
                           !.seen = db[r.uid].refreshToken]]
    /\ UNCHANGED <<media, now, db, stripsUndef, nreq, hist>>

\* Faulty variants: the whole copy read is written back; nothing is written.
SavePasswordWholeDoc(stored, seen, newPassword) ==
    [stored EXCEPT !.password = Hash(newPassword), !.refreshToken = seen]
SavePasswordNot(stored, seen, newPassword) == stored
\* line 357: user.save() writes the modified path only, the password, which
\* the pre-save hook has hashed.
SavePassword(stored, seen, newPassword) ==
    [stored EXCEPT !.password = preSave(newPassword, TRUE)]

\* lines 357-361
changeCurrentPasswordSave(s) ==
    /\ req[s].kind = "changePassword" /\ req[s].pc = "pwSave"
    /\ LET r == req[s]
       IN IF r.newPassword = Absent
          THEN \* bcrypt.hash(undefined, 10) in the pre-save hook throws
               /\ req' = [req EXCEPT ![s] =
                            Finish(@, Thrown("data and salt arguments required"))]
               /\ UNCHANGED <<db, pwChanged>>
          ELSE /\ db' = [db EXCEPT ![r.uid] = SavePassword(@, r.seen, r.newPassword)]
               /\ pwChanged' = [pwChanged EXCEPT ![r.uid] = <<r.password, r.newPassword>>]
               /\ req' = [req EXCEPT ![s] =
                            Finish(@, Resp(200, "Password changed successfully"))]
    /\ UNCHANGED <<media, now, stripsUndef, nreq, handed, exchanged, superseded, loggedOut>>

\* ---------------------------------------------------------- getCurrentUser
\* The identity the Auth Gate attaches to the request: the record without
\* its password and refresh token.
GateIdentity(id) == Select(db[id], {"password", "refreshToken"})

\* The Auth Gate (routes, lines 85-88), then lines 378-385: req.user is sent.
getCurrentUser(s, access) ==
    /\ CanStart(s)
    /\ nreq' = nreq + 1
    /\ LET v == verifyJWT(access, now)
           id == IF v = "ok" THEN access.id ELSE 0
           arrived == Arrive(s, "currentUser", id, [Idle EXCEPT !.uid = id, !.expired = ExpiredAccess(access),
                         !.afterLogout = LoggedOutAccess(access)])
       IN req' = [arrived EXCEPT ![s] =
                    IF v # "ok" THEN Finish(@, Resp(401, v))
                    ELSE Finish(@, [Resp(200, "Current user fetched successfully")
                                      EXCEPT !.user = GateIdentity(id)])]
    /\ UNCHANGED <<media, now, db, stripsUndef, hist>>

\* ---------------------------------------------------- updateAccountDetails
\* The Auth Gate (routes, lines 90-93), then lines 402-407.
updateAccountDetailsStart(s, access, fullName, email) ==
    /\ CanStart(s)
    /\ nreq' = nreq + 1
    /\ LET v == verifyJWT(access, now)
           id == IF v = "ok" THEN access.id ELSE 0
           f == [Idle EXCEPT !.pc = "acctUpdate", !.uid = id, !.expired = ExpiredAccess(access),
                         !.afterLogout = LoggedOutAccess(access), !.email = email]
           arrived == Arrive(s, "updateAccount", id, f)
       IN req' = IF v # "ok"
                 THEN [arrived EXCEPT ![s] = Finish(@, Resp(401, v))]
                 ELSE IF Absent \in {fullName, email}
                 THEN [arrived EXCEPT ![s] = Finish(@, Resp(400, "All fields are required"))]
                 ELSE arrived
    /\ UNCHANGED <<media, now, db, stripsUndef, hist>>

\* The unique index of email, against the other documents.
DuplicateOther(id, email) ==
    \E i \in Registered \ {id} : db[i].email = Lower(email)

\* lines 410-423: findByIdAndUpdate($set: {fullname, email}), select("-password")
updateAccountDetailsUpdate(s) ==
    /\ req[s].kind = "updateAccount" /\ req[s].pc = "acctUpdate"
    /\ LET r == req[s]
       IN IF DuplicateOther(r.uid, r.email)
          THEN \* E11000 from the unique index: not an ApiError, hence 500
               /\ req' = [req EXCEPT ![s] = Finish(@, Thrown("E11000 duplicate key"))]
               /\ db' = db
          ELSE /\ db' = [db EXCEPT ![r.uid].email = Lower(r.email)]
               /\ req' = [req EXCEPT ![s] =
                            Finish(@, [Resp(200, "Account details updated successfully")
                                         EXCEPT !.user = Select(db'[r.uid], {"password"})])]
    /\ UNCHANGED <<media, now, stripsUndef, nreq, hist>>

\* ------------------------------------ updateUserAvatar, updateUserCoverImage
\* The Auth Gate and multer (routes, lines 95-105), then the file check.
updateImageStart(s, kind, access, file, missing) ==
    /\ CanStart(s)
    /\ nreq' = nreq + 1
    /\ LET v == verifyJWT(access, now)
           id == IF v = "ok" THEN access.id ELSE 0
           f == [Idle EXCEPT !.pc = "imgUpdate", !.uid = id, !.expired = ExpiredAccess(access),
                         !.afterLogout = LoggedOutAccess(access)]
           arrived == Arrive(s, kind, id, f)
       IN req' = IF v # "ok"
                 THEN [arrived EXCEPT ![s] = Finish(@, Resp(401, v))]
                 ELSE IF ~file
                 THEN [arrived EXCEPT ![s] = Finish(@, Resp(400, missing))]
                 ELSE arrived
    /\ UNCHANGED <<media, now, db, stripsUndef, hist>>

\* The upload, then findByIdAndUpdate($set: {avatar | coverImage}) and
\* select("-password"); the image URLs are not among the paths kept here.
updateImageUpdate(s, kind, uploaded, msg) ==
    /\ req[s].kind = kind /\ req[s].pc = "imgUpdate"
    /\ req' = [req EXCEPT ![s] =
                 IF ~uploaded
                 THEN \* uploadOnCloudinary returned null: null.url is a TypeError
                      Finish(@, Thrown("TypeError"))
                 ELSE Finish(@, [Resp(200, msg) EXCEPT
                                   !.user = Select(db[req[s].uid], {"password"})])]
    /\ UNCHANGED <<media, now, db, stripsUndef, nreq, hist>>

\* lines 446-450
updateUserAvatarStart(s, access, file) ==
    updateImageStart(s, "avatar", access, file, "Avatar file is missing")
\* lines 453-474
updateUserAvatarUpdate(s, uploaded) ==
    updateImageUpdate(s, "avatar", uploaded, "Avatar image updated successfully")
\* lines 494-498
updateUserCoverImageStart(s, access, file) ==
    updateImageStart(s, "coverImage", access, file, "Cover image file is missing")
\* lines 501-519
updateUserCoverImageUpdate(s, uploaded) ==
    updateImageUpdate(s, "coverImage", uploaded, "Cover image updated successfully")

\* ------------------------------------------- videos, comments and tweets
\* The handlers below run behind the Auth Gate (router.use(verifyJWT)): user
\* is req.user._id, an identity of the store.
Found(c, id) == id \in EntIds /\ store[c][id].exists
\* The _id of the next document of a collection.
CanCreate(c) == \E i \in EntIds : ~store[c][i].made
NewId(c) == CHOOSE i \in EntIds : ~store[c][i].made
                                  /\ \A j \in EntIds : j < i => store[c][j].made
\* Model.create({..., owner: req.user._id})
NewEnt(user, content) ==
    [made |-> TRUE, exists |-> TRUE, owner |-> user, content |-> content,
     isPublished |-> TRUE, videos |-> <<>>]

\* Faulty variant: every requester passes for the owner.
IsOwnerAlways(doc, user) == TRUE
\* doc.owner.toString() !== req.user._id.toString()
IsOwner(doc, user) == doc.owner = user

\* !content || content.trim() === ""
Blank(content) == content = Absent \/ Trim(content) = ""
\* !title && !description, !name && !description: one value stands for both
NoField(content) == content \in {Absent, ""}

\* A create handler: the validation, then Model.create and the 201 response.
\* Nothing before the create reads a document that the create depends on.
createStart(s, kind, c, user, content, invalid, msg400, missing, msg201) ==
    /\ CanStart(s)
    /\ user \in Registered
    /\ CanCreate(c)
    /\ nreq' = nreq + 1
    /\ LET f == [Idle EXCEPT !.uid = user, !.target = NewId(c),
                             !.valid = IF invalid THEN "no" ELSE "yes"]
           arrived == Arrive(s, kind, user, f)
       IN IF invalid
          THEN /\ req' = [arrived EXCEPT ![s] =
                            Finish([@ EXCEPT !.target = 0], Resp(400, msg400))]
               /\ store' = store
          ELSE IF missing
          THEN /\ req' = [arrived EXCEPT ![s] =
                            Finish([@ EXCEPT !.target = 0], Resp(404, "Video not found"))]
               /\ store' = store
          ELSE /\ req' = [arrived EXCEPT ![s] = Finish(@, Resp(201, msg201))]
               /\ store' = [store EXCEPT ![c][NewId(c)] = NewEnt(user, content)]
    /\ UNCHANGED <<now, users, likes, subscriptions>>

\* part_005 lines 76-127
publishAVideo(s, user, title) ==
    createStart(s, "publishAVideo", "videos", user, title, title \in {Absent, ""},
                "Title and description are required", FALSE,
                "Video uploaded successfully")
\* part_006 lines 86-145: the video is looked up first
addComment(s, user, videoId, content) ==
    createStart(s, "addComment", "comments", user, content, Blank(content),
                "Comment content is required", ~Found("videos", videoId),
                "Comment added successfully")
\* tweet.controller.js lines 21-71
createTweet(s, user, content) ==
    createStart(s, "createTweet", "tweets", user, content, Blank(content),
                "Tweet content is required", FALSE, "Tweet created successfully")
\* part_005 lines 310-328
createPlaylist(s, user, name) ==
    createStart(s, "createPlaylist", "playlists", user, name, Blank(name),
                "Playlist name is required", FALSE, "Playlist created successfully")

\* The head of a handler that changes a document: the validation, findById,
\* and the comparison of the owner with the requester; the write comes after
\* an await.  isOwner (history): whether the requester owns the document
\* found; local: the paths of the copy read that the handler goes on to use.
guardedStart(s, kind, c, user, id, videoId, content, invalid, msg400, msg404, msg403, next) ==
    /\ CanStart(s)
    /\ user \in Registered
    /\ nreq' = nreq + 1
    /\ LET doc == store[c][id]
           f == [Idle EXCEPT !.pc = next, !.uid = user, !.target = id,
                             !.video = videoId, !.content = content,
                             !.valid = IF invalid THEN "no" ELSE "yes",
                             !.isOwner = IF ~doc.exists THEN "n/a"
                                         ELSE IF doc.owner = user THEN "yes"
                                         ELSE "no",
                             !.local = <<doc.isPublished, doc.videos>>]
           arrived == Arrive(s, kind, user, f)
       IN req' = IF invalid
                 THEN [arrived EXCEPT ![s] = Finish(@, Resp(400, msg400))]
                 ELSE IF ~Found(c, id)
                 THEN [arrived EXCEPT ![s] = Finish(@, Resp(404, msg404))]
                 ELSE IF ~IsOwner(doc, user)
                 THEN [arrived EXCEPT ![s] = Finish(@, Resp(403, msg403))]
                 ELSE arrived
    /\ UNCHANGED <<now, users, media>>

\* findByIdAndUpdate / findByIdAndDelete by _id, and the 200 response: a
\* document deleted in between is not found, and the answer is 200 all the same.
guardedWrite(s, c, new, msg) ==
    /\ store' = [store EXCEPT ![c][req[s].target] = IF @.exists THEN new ELSE @]
    /\ req' = [req EXCEPT ![s] = Finish(@, Resp(200, msg))]
    /\ UNCHANGED <<now, users, nreq, likes, subscriptions>>

\* part_005 lines 171-192
updateVideoStart(s, user, videoId, title) ==
    guardedStart(s, "updateVideo", "videos", user, videoId, 0, title, NoField(title),
                 "At least one field is required to update", "Video not found",
                 "You can only update your own videos", "write")
\* part_005 lines 194-214
updateVideoUpdate(s) ==
    /\ req[s].kind = "updateVideo" /\ req[s].pc = "write"
    /\ guardedWrite(s, "videos",
                    [store["videos"][req[s].target] EXCEPT !.content = req[s].content],
                    "Video updated successfully")
\* part_005 lines 222-238
deleteVideoStart(s, user, videoId) ==
    guardedStart(s, "deleteVideo", "videos", user, videoId, 0, Absent, FALSE, "",
                 "Video not found", "You can only delete your own videos", "write")
\* part_005 lines 240-244
deleteVideoDelete(s) ==
    /\ req[s].kind = "deleteVideo" /\ req[s].pc = "write"
    /\ guardedWrite(s, "videos",
                    [store["videos"][req[s].target] EXCEPT !.exists = FALSE],
                    "Video deleted successfully")
\* part_005 lines 252-268
togglePublishStatusStart(s, user, videoId) ==
    guardedStart(s, "togglePublishStatus", "videos", user, videoId, 0, Absent, FALSE, "",
                 "Video not found", "You can only modify your own videos", "write")
\* part_005 lines 270-278: $set: {isPublished: !video.isPublished}, the value read
togglePublishStatusUpdate(s) ==
    /\ req[s].kind = "togglePublishStatus" /\ req[s].pc = "write"
    /\ guardedWrite(s, "videos",
                    [store["videos"][req[s].target] EXCEPT
                        !.isPublished = ~req[s].local[1]],
                    "Video publish status updated successfully")

\* part_006 lines 152-175
updateCommentStart(s, user, commentId, content) ==
    guardedStart(s, "updateComment", "comments", user, commentId, 0, content,
                 Blank(content), "Comment content is required", "Comment not found",
                 "You can only update your own comments", "write")
\* part_006 lines 177-186
updateCommentUpdate(s) ==
    /\ req[s].kind = "updateComment" /\ req[s].pc = "write"
    /\ guardedWrite(s, "comments",
                    [store["comments"][req[s].target] EXCEPT !.content = req[s].content],
                    "Comment updated successfully")
\* part_006 lines 194-211
deleteCommentStart(s, user, commentId) ==
    guardedStart(s, "deleteComment", "comments", user, commentId, 0, Absent, FALSE, "",
                 "Comment not found", "You can only delete your own comments", "write")
\* part_006 lines 213-218
deleteCommentDelete(s) ==
    /\ req[s].kind = "deleteComment" /\ req[s].pc = "write"
    /\ guardedWrite(s, "comments",
                    [store["comments"][req[s].target] EXCEPT !.exists = FALSE],
                    "Comment deleted successfully")

\* tweet.controller.js lines 143-170
updateTweetStart(s, user, tweetId, content) ==
    guardedStart(s, "updateTweet", "tweets", user, tweetId, 0, content,
                 Blank(content), "Tweet content is required", "Tweet not found",
                 "You can only update your own tweets", "write")
\* tweet.controller.js lines 172-181
updateTweetUpdate(s) ==
    /\ req[s].kind = "updateTweet" /\ req[s].pc = "write"
    /\ guardedWrite(s, "tweets",
                    [store["tweets"][req[s].target] EXCEPT !.content = req[s].content],
                    "Tweet updated successfully")
\* tweet.controller.js lines 189-206
deleteTweetStart(s, user, tweetId) ==
    guardedStart(s, "deleteTweet", "tweets", user, tweetId, 0, Absent, FALSE, "",
                 "Tweet not found", "You can only delete your own tweets", "write")
\* tweet.controller.js lines 208-213
deleteTweetDelete(s) ==
    /\ req[s].kind = "deleteTweet" /\ req[s].pc = "write"
    /\ guardedWrite(s, "tweets",
                    [store["tweets"][req[s].target] EXCEPT !.exists = FALSE],
                    "Tweet deleted successfully")

\* --------------------------------------------------------------- playlists
\* playlist.videos.includes(videoId)
Includes(videos, videoId) == \E k \in 1..Len(videos) : videos[k] = videoId
\* Faulty variant: the videos are not appended.
PushNot(videos, videoId) == videos
\* $push: {videos: videoId}
Push(videos, videoId) == Append(videos, videoId)
\* $pull: {videos: videoId}: every occurrence goes
Pull(videos, videoId) == SelectSeq(videos, LAMBDA v : v # videoId)

\* part_005 lines 462-478: findById of the playlist and the owner check
addVideoToPlaylistStart(s, user, playlistId, videoId) ==
    guardedStart(s, "addVideoToPlaylist", "playlists", user, playlistId, videoId,
                 Absent, FALSE, "", "Playlist not found",
                 "You can only modify your own playlists", "vidFind")

\* part_005 lines 480-489: findById of the video, then the membership check
\* on the copy of the playlist read before.
\* before (history): whether the playlist of the store holds the video now.
addVideoToPlaylistFind(s) ==
    /\ req[s].kind = "addVideoToPlaylist" /\ req[s].pc = "vidFind"
    /\ LET r == req[s]
           held == IF Includes(store["playlists"][r.target].videos, r.video)
                   THEN "yes" ELSE "no"
       IN req' = [req EXCEPT ![s] =
            IF ~Found("videos", r.video)
            THEN Finish(@, Resp(404, "Video not found"))
            ELSE IF Includes(r.local[2], r.video)
            THEN Finish([@ EXCEPT !.before = held],
                        Resp(400, "Video already exists in playlist"))
            ELSE [@ EXCEPT !.pc = "push", !.before = held]]
    /\ UNCHANGED <<now, users, nreq, media>>

\* part_005 lines 491-500
addVideoToPlaylistPush(s) ==
    /\ req[s].kind = "addVideoToPlaylist" /\ req[s].pc = "push"
    /\ guardedWrite(s, "playlists",
                    [store["playlists"][req[s].target] EXCEPT
                        !.videos = Push(@, req[s].video)],
                    "Video added to playlist successfully")

\* part_005 lines 508-529: the membership check follows the owner check with
\* no await between
removeVideoFromPlaylistStart(s, user, playlistId, videoId) ==
    /\ CanStart(s)
    /\ user \in Registered
    /\ nreq' = nreq + 1
    /\ LET doc == store["playlists"][playlistId]
           f == [Idle EXCEPT !.pc = "write", !.uid = user, !.target = playlistId,
                             !.video = videoId, !.valid = "yes",
                             !.isOwner = IF ~doc.exists THEN "n/a"
                                         ELSE IF doc.owner = user THEN "yes"
                                         ELSE "no"]
           arrived == Arrive(s, "removeVideoFromPlaylist", user, f)
       IN req' = IF ~doc.exists
                 THEN [arrived EXCEPT ![s] = Finish(@, Resp(404, "Playlist not found"))]
                 ELSE IF ~IsOwner(doc, user)
                 THEN [arrived EXCEPT ![s] =
                         Finish(@, Resp(403, "You can only modify your own playlists"))]
                 ELSE IF ~Includes(doc.videos, videoId)
                 THEN [arrived EXCEPT ![s] =
                         Finish(@, Resp(400, "Video not found in playlist"))]
                 ELSE arrived
    /\ UNCHANGED <<now, users, media>>

\* part_005 lines 531-540
removeVideoFromPlaylistPull(s) ==
    /\ req[s].kind = "removeVideoFromPlaylist" /\ req[s].pc = "write"
    /\ guardedWrite(s, "playlists",
                    [store["playlists"][req[s].target] EXCEPT
                        !.videos = Pull(@, req[s].video)],
                    "Video removed from playlist successfully")

\* part_005 lines 548-564
deletePlaylistStart(s, user, playlistId) ==
    guardedStart(s, "deletePlaylist", "playlists", user, playlistId, 0, Absent, FALSE, "",
                 "Playlist not found", "You can only delete your own playlists",
                 "write")
\* part_005 lines 566-571
deletePlaylistDelete(s) ==
    /\ req[s].kind = "deletePlaylist" /\ req[s].pc = "write"
    /\ guardedWrite(s, "playlists",
                    [store["playlists"][req[s].target] EXCEPT !.exists = FALSE],
                    "Playlist deleted successfully")
\* part_005 lines 579-601
updatePlaylistStart(s, user, playlistId, name) ==
    guardedStart(s, "updatePlaylist", "playlists", user, playlistId, 0, name,
                 NoField(name), "At least one field is required to update",
                 "Playlist not found", "You can only update your own playlists",
                 "write")
\* part_005 lines 603-617
updatePlaylistUpdate(s) ==
    /\ req[s].kind = "updatePlaylist" /\ req[s].pc = "write"
    /\ guardedWrite(s, "playlists",
                    [store["playlists"][req[s].target] EXCEPT !.content = req[s].content],
                    "Playlist updated successfully")

\* ------------------------------------------------ likes and subscriptions
\* The ids of the liked documents (the handlers do not look the target up).
TargetIds == {1, 2}
LikeFields == {"video", "comment", "tweet"}
ToggleKinds ==
    {"toggleVideoLike", "toggleCommentLike", "toggleTweetLike", "toggleSubscription"}
FieldOf(kind) ==
    IF kind = "toggleVideoLike" THEN "video"
    ELSE IF kind = "toggleCommentLike" THEN "comment" ELSE "tweet"

\* The _id of a new like or subscription: one that no document holds and no
\* request in flight has read (an ObjectId is never used again).
Held ==
    {l.id : l \in likes} \cup {d.id : d \in subscriptions}
    \cup {req[o].local[1] : o \in {x \in Slots : /\ req[x].kind \in ToggleKinds
                                                 /\ req[x].local # <<>>}}
NewObjectId == CHOOSE i \in 1..(MaxRequests + 1) : i \notin Held

\* Like.create({<field>: target, likedBy}): the two other paths are not set
\* (0: the path is missing).
NewLike(id, field, target, user) ==
    [id |-> id,
     video |-> IF field = "video" THEN target ELSE 0,
     comment |-> IF field = "comment" THEN target ELSE 0,
     tweet |-> IF field = "tweet" THEN target ELSE 0,
     likedBy |-> user]

\* likeSchema.index({video: 1, likedBy: 1}, {unique: true, sparse: true}) and
\* the same on comment and on tweet.  A sparse compound index leaves out the
\* documents that have none of its keys; likedBy is required, so every like is
\* in all three indexes, its missing paths indexed as null.
LikeKey(l, field) == <<l[field], l.likedBy>>
LikeDuplicate(new) ==
    \E l \in likes, f \in LikeFields : LikeKey(l, f) = LikeKey(new, f)

\* Like.findOne({<field>: target, likedBy: user})
LikeFindOne(field, target, user) ==
    {l \in likes : l[field] = target /\ l.likedBy = user}

\* like.controller.js lines 20-36: isValidObjectId, then Like.findOne.
\* local: the _id of the like found, if any; before (history): whether the
\* user likes the target as the request arrives.
toggleLikeStart(s, kind, user, target, msg400) ==
    /\ CanStart(s)
    /\ user \in Registered
    /\ nreq' = nreq + 1
    /\ LET existing == LikeFindOne(FieldOf(kind), target, user)
           f == [Idle EXCEPT !.pc = "write", !.uid = user, !.target = target,
                             !.valid = IF target \in TargetIds THEN "yes" ELSE "no",
                             !.before = IF existing # {} THEN "yes" ELSE "no",
                             !.local = IF existing = {} THEN <<>>
                                       ELSE <<(CHOOSE l \in existing : TRUE).id>>]
           arrived == Arrive(s, kind, user, f)
       IN req' = IF target \notin TargetIds
                 THEN [arrived EXCEPT ![s] = Finish(@, Resp(400, msg400))]
                 ELSE arrived
    /\ UNCHANGED <<now, users, media>>

\* like.controller.js lines 38-49: findByIdAndDelete of the like found, or
\* Like.create; a create that meets a unique index throws E11000.
toggleLikeWrite(s, kind, unliked, liked) ==
    /\ req[s].kind = kind /\ req[s].pc = "write"
    /\ LET r == req[s]
           new == NewLike(NewObjectId, FieldOf(kind), r.target, r.uid)
       IN IF r.local # <<>>
          THEN /\ likes' = {l \in likes : l.id # r.local[1]}
               /\ req' = [req EXCEPT ![s] =
                            Finish(@, [Resp(200, unliked) EXCEPT !.flag = "false"])]
          ELSE IF LikeDuplicate(new)
          THEN /\ likes' = likes
               /\ req' = [req EXCEPT ![s] = Finish(@, Thrown("E11000 duplicate key"))]
          ELSE /\ likes' = likes \cup {new}
               /\ req' = [req EXCEPT ![s] =
                            Finish(@, [Resp(200, liked) EXCEPT !.flag = "true"])]
    /\ UNCHANGED <<now, users, nreq, store, subscriptions>>

\* like.controller.js lines 20-50
toggleVideoLikeStart(s, user, videoId) ==
    toggleLikeStart(s, "toggleVideoLike", user, videoId, "Invalid video ID")
toggleVideoLikeWrite(s) ==
    toggleLikeWrite(s, "toggleVideoLike", "Video unliked successfully",
                    "Video liked successfully")
\* like.controller.js lines 57-87
toggleCommentLikeStart(s, user, commentId) ==
    toggleLikeStart(s, "toggleCommentLike", user, commentId, "Invalid comment ID")
toggleCommentLikeWrite(s) ==
    toggleLikeWrite(s, "toggleCommentLike", "Comment unliked successfully",
                    "Comment liked successfully")
\* like.controller.js lines 94-124
toggleTweetLikeStart(s, user, tweetId) ==
    toggleLikeStart(s, "toggleTweetLike", user, tweetId, "Invalid tweet ID")
toggleTweetLikeWrite(s) ==
    toggleLikeWrite(s, "toggleTweetLike", "Tweet unliked successfully",
                    "Tweet liked successfully")

\* subscriptionSchema.index({subscriber: 1, channel: 1}, {unique: true})
SubscriptionDuplicate(new) ==
    \E d \in subscriptions :
        d.subscriber = new.subscriber /\ d.channel = new.channel
\* Subscription.findOne({subscriber, channel})
SubscriptionFindOne(user, channel) ==
    {d \in subscriptions : d.subscriber = user /\ d.channel = channel}

\* like.controller.js lines 216-233: isValidObjectId, User.findById of the
\* channel, and the refusal of a subscription to oneself.
toggleSubscriptionStart(s, user, channelId) ==
    /\ CanStart(s)
    /\ user \in Registered
    /\ nreq' = nreq + 1
    /\ LET f == [Idle EXCEPT !.pc = "subFind", !.uid = user, !.target = channelId,
                             !.valid = IF channelId \in Ids /\ Exists(channelId)
                                          /\ channelId # user
                                       THEN "yes" ELSE "no",
                             !.before = IF SubscriptionFindOne(user, channelId) # {}
                                        THEN "yes" ELSE "no"]
           arrived == Arrive(s, "toggleSubscription", user, f)
       IN req' = IF channelId \notin Ids
                 THEN [arrived EXCEPT ![s] = Finish(@, Resp(400, "Invalid channel ID"))]
                 ELSE IF ~Exists(channelId)
                 THEN [arrived EXCEPT ![s] = Finish(@, Resp(404, "Channel not found"))]
                 ELSE IF channelId = user
                 THEN [arrived EXCEPT ![s] =
                         Finish(@, Resp(400, "You cannot subscribe to your own channel"))]
                 ELSE arrived
    /\ UNCHANGED <<now, users, media>>

\* like.controller.js lines 235-239: Subscription.findOne
toggleSubscriptionFind(s) ==
    /\ req[s].kind = "toggleSubscription" /\ req[s].pc = "subFind"
    /\ LET existing == SubscriptionFindOne(req[s].uid, req[s].target)
       IN req' = [req EXCEPT ![s].pc = "write",
                             ![s].local = IF existing = {} THEN <<>>
                                          ELSE <<(CHOOSE d \in existing : TRUE).id>>]
    /\ UNCHANGED <<now, users, nreq, media>>

\* like.controller.js lines 241-256
toggleSubscriptionWrite(s) ==
    /\ req[s].kind = "toggleSubscription" /\ req[s].pc = "write"
    /\ LET r == req[s]
           new == [id |-> NewObjectId, subscriber |-> r.uid, channel |-> r.target]
       IN IF r.local # <<>>
          THEN /\ subscriptions' = {d \in subscriptions : d.id # r.local[1]}
               /\ req' = [req EXCEPT ![s] =
                            Finish(@, [Resp(200, "Unsubscribed successfully")
                                         EXCEPT !.flag = "false"])]
          ELSE IF SubscriptionDuplicate(new)
          THEN /\ subscriptions' = subscriptions
               /\ req' = [req EXCEPT ![s] = Finish(@, Thrown("E11000 duplicate key"))]
          ELSE /\ subscriptions' = subscriptions \cup {new}
               /\ req' = [req EXCEPT ![s] =
                            Finish(@, [Resp(200, "Subscribed successfully")
                                         EXCEPT !.flag = "true"])]
    /\ UNCHANGED <<now, users, nreq, store, likes>>

\* ------------------------------------------------------------------- spec
\* What the clients send: the tokens they were handed, of either class, none,
\* or garbage; a few registrations and logins.
AccessHanded == {generateAccessToken(t.id, t.iat) : t \in handed}
TokenInputs == handed \cup AccessHanded \cup {NoTok, Garbage}
AccessInputs == AccessHanded \cup {NoTok, Garbage}
RegisterInputs ==
    {<<"alice", "a@x.com", "secret1">>, <<"bob", "b@x.com", "secret2">>,
     <<"bob", Absent, "secret1">>}
LoginInputs ==
    {<<u, Absent, p>> : u \in Usernames, p \in Passwords}
      \cup {<<Absent, "a@x.com", "secret1">>, <<Absent, Absent, "secret1">>,
            <<"alice", Absent, Absent>>}

Next ==
    \/ Tick
    \/ \E s \in Slots, i \in RegisterInputs :
          registerUserStart(s, "Al", i[1], i[2], i[3])
    \/ \E s \in Slots, f \in {"none", "noAvatar", "avatar"}, up \in BOOLEAN :
          registerUserCreate(s, f, up)
    \/ \E s \in Slots, i \in LoginInputs : loginUserStart(s, i[1], i[2], i[3])
    \/ \E s \in Slots : generateTokens(s)
    \/ \E s \in Slots : saveTokens(s, "https")
    \/ \E s \in Slots, t \in TokenInputs : refreshAccessTokenStart(s, t, NoTok)
    \/ \E s \in Slots : refreshAccessTokenFind(s)
    \/ \E s \in Slots, t \in AccessInputs : logoutUserStart(s, t)
    \/ \E s \in Slots : logoutUserUpdate(s)

Spec == Init /\ [][Next]_vars

\* The account operations beside the session ones, at one reading of the
\* clock: registrations that collide in letter case or in email alone,
\* changes of password and of email, and the reads of the profile.
RegisterInputsAccount ==
    {<<"Al", i[1], i[2], i[3]>> :
        i \in RegisterInputs \cup {<<"Alice", "c@x.com", "secret1">>,
                                   <<"bob", "a@x.com", "secret2">>}}
      \cup {<<Absent, "alice", "a@x.com", "secret1">>,
            <<"Al", "  ", "a@x.com", "secret1">>,
            <<"Al", "alice", "", "secret1">>,
            <<"Al", "alice", "a@x.com", "  ">>}
PasswordInputs ==
    {<<"secret1", "secret2">>, <<"secret2", "secret1">>, <<"secret1", Absent>>}
AccountInputs == {<<"Al", "b@x.com">>, <<"Al", "A@X.COM">>, <<Absent, "b@x.com">>}
GateInputs == AccessHanded \cup {NoTok}

NextAccount ==
    \/ \E s \in Slots, i \in RegisterInputsAccount :
          registerUserStart(s, i[1], i[2], i[3], i[4])
    \/ \E s \in Slots, f \in {"none", "noAvatar", "avatar"}, up \in BOOLEAN :
          registerUserCreate(s, f, up)
    \/ \E s \in Slots, i \in LoginInputs : loginUserStart(s, i[1], i[2], i[3])
    \/ \E s \in Slots : generateTokens(s)
    \/ \E s \in Slots : saveTokens(s, "https")
    \/ \E s \in Slots, t \in TokenInputs : refreshAccessTokenStart(s, t, NoTok)
    \/ \E s \in Slots : refreshAccessTokenFind(s)
    \/ \E s \in Slots, t \in GateInputs : logoutUserStart(s, t)
    \/ \E s \in Slots : logoutUserUpdate(s)
    \/ \E s \in Slots, t \in GateInputs, i \in PasswordInputs :
          changeCurrentPasswordStart(s, t, i[1], i[2])
    \/ \E s \in Slots : changeCurrentPasswordFind(s)
    \/ \E s \in Slots : changeCurrentPasswordSave(s)
    \/ \E s \in Slots, t \in GateInputs : getCurrentUser(s, t)
    \/ \E s \in Slots, t \in GateInputs, i \in AccountInputs :
          updateAccountDetailsStart(s, t, i[1], i[2])
    \/ \E s \in Slots : updateAccountDetailsUpdate(s)
    \/ \E s \in Slots, t \in GateInputs, f \in BOOLEAN : updateUserAvatarStart(s, t, f)
    \/ \E s \in Slots, up \in BOOLEAN : updateUserAvatarUpdate(s, up)
    \/ \E s \in Slots, t \in GateInputs, f \in BOOLEAN :
          updateUserCoverImageStart(s, t, f)
    \/ \E s \in Slots, up \in BOOLEAN : updateUserCoverImageUpdate(s, up)

SpecAccount == Init /\ [][NextAccount]_vars

\* The session operations over either transport, with the failures of the
\* signing and of the store write, at one reading of the clock.
Protocols == {"http", "https"}

NextFaults ==
    \/ \E s \in Slots, i \in RegisterInputs :
          registerUserStart(s, "Al", i[1], i[2], i[3])
    \/ \E s \in Slots, f \in {"none", "noAvatar", "avatar"}, up \in BOOLEAN :
          registerUserCreate(s, f, up)
    \/ \E s \in Slots, i \in LoginInputs : loginUserStart(s, i[1], i[2], i[3])
    \/ \E s \in Slots : generateTokens(s)
    \/ \E s \in Slots : generateTokensFails(s)
    \/ \E s \in Slots, p \in Protocols : saveTokens(s, p)
    \/ \E s \in Slots : saveTokensFails(s)
    \/ \E s \in Slots, t \in TokenInputs : refreshAccessTokenStart(s, t, NoTok)
    \/ \E s \in Slots : refreshAccessTokenFind(s)

SpecFaults == Init /\ [][NextFaults]_vars

\* The protected routes as the clock moves on: registration and login, then
\* every handler behind the Auth Gate, with access tokens of any age.
RegisterInputsGate == {<<"alice", "a@x.com", "secret1">>}
LoginInputsGate == {<<"alice", Absent, "secret1">>, <<"alice", Absent, "secret2">>}
PasswordInputsGate == {<<"secret1", "secret2">>, <<"secret2", "secret1">>}

NextGate ==
    \/ Tick
    \/ \E s \in Slots, i \in RegisterInputsGate :
          registerUserStart(s, "Al", i[1], i[2], i[3])
    \/ \E s \in Slots, f \in {"avatar"}, up \in BOOLEAN :
          registerUserCreate(s, f, up)
    \/ \E s \in Slots, i \in LoginInputsGate : loginUserStart(s, i[1], i[2], i[3])
    \/ \E s \in Slots : generateTokens(s)
    \/ \E s \in Slots : saveTokens(s, "https")
    \/ \E s \in Slots, t \in GateInputs : logoutUserStart(s, t)
    \/ \E s \in Slots : logoutUserUpdate(s)
    \/ \E s \in Slots, t \in GateInputs, i \in PasswordInputsGate :
          changeCurrentPasswordStart(s, t, i[1], i[2])
    \/ \E s \in Slots : changeCurrentPasswordFind(s)
    \/ \E s \in Slots : changeCurrentPasswordSave(s)
    \/ \E s \in Slots, t \in GateInputs : getCurrentUser(s, t)
    \/ \E s \in Slots, t \in GateInputs, i \in AccountInputs :
          updateAccountDetailsStart(s, t, i[1], i[2])
    \/ \E s \in Slots : updateAccountDetailsUpdate(s)
    \/ \E s \in Slots, t \in GateInputs, f \in BOOLEAN : updateUserAvatarStart(s, t, f)
    \/ \E s \in Slots, up \in BOOLEAN : updateUserAvatarUpdate(s, up)
    \/ \E s \in Slots, t \in GateInputs, f \in BOOLEAN :
          updateUserCoverImageStart(s, t, f)
    \/ \E s \in Slots, up \in BOOLEAN : updateUserCoverImageUpdate(s, up)

SpecGate == Init /\ [][NextGate]_vars

\* The refresh with its two carriers, cookie and body field, each absent,
\* empty, undecodable or a token handed out to one of two identities, at one
\* reading of the clock.
CarrierInputs == handed \cup {NoTok, Empty, Garbage}
RegisterInputsCarrier ==
    {<<"alice", "a@x.com", "secret1">>, <<"bob", "b@x.com", "secret2">>}
LoginInputsCarrier ==
    {<<"alice", Absent, "secret1">>, <<"bob", Absent, "secret2">>}

NextCarrier ==
    \/ \E s \in Slots, i \in RegisterInputsCarrier :
          registerUserStart(s, "Al", i[1], i[2], i[3])
    \/ \E s \in Slots, f \in {"avatar"}, up \in {TRUE} :
          registerUserCreate(s, f, up)
    \/ \E s \in Slots, i \in LoginInputsCarrier : loginUserStart(s, i[1], i[2], i[3])
    \/ \E s \in Slots : generateTokens(s)
    \/ \E s \in Slots : saveTokens(s, "https")
    \/ \E s \in Slots, c \in CarrierInputs, b \in CarrierInputs :
          refreshAccessTokenStart(s, c, b)
    \/ \E s \in Slots : refreshAccessTokenFind(s)

SpecCarrier == Init /\ [][NextCarrier]_vars

\* The content handlers run for identities of the store: the state after the
\* registrations of alice and bob, with nothing else done (no content handler
\* reads stripsUndef).
InitContent ==
    /\ now = 0
    /\ db = [i \in Ids |-> IF i = 1 THEN NewDoc("alice", "a@x.com", "secret1")
                           ELSE NewDoc("bob", "b@x.com", "secret2")]
    /\ stripsUndef = FALSE
    /\ req = [s \in Slots |-> Idle]
    /\ nreq = 0
    /\ handed = {}
    /\ exchanged = {}
    /\ superseded = {}
    /\ loggedOut = {}
    /\ pwChanged = [i \in Ids |-> <<>>]
    /\ store = [c \in Collections |-> [i \in EntIds |-> NoEnt]]
    /\ likes = {}
    /\ subscriptions = {}

\* The handlers that change a video, a comment, a tweet or a playlist, called
\* by the owner and by the other identity, with and without their fields.
CreateTexts == {"v0"}
UpdateTexts == {"v1", ""}

NextOwner ==
    \/ \E s \in Slots, u \in Ids, t \in CreateTexts : publishAVideo(s, u, t)
    \/ \E s \in Slots, u \in Ids, v \in EntIds, t \in CreateTexts : addComment(s, u, v, t)
    \/ \E s \in Slots, u \in Ids, t \in CreateTexts : createTweet(s, u, t)
    \/ \E s \in Slots, u \in Ids, t \in CreateTexts : createPlaylist(s, u, t)
    \/ \E s \in Slots, u \in Ids, v \in EntIds, t \in UpdateTexts :
          updateVideoStart(s, u, v, t)
    \/ \E s \in Slots : updateVideoUpdate(s)
    \/ \E s \in Slots, u \in Ids, v \in EntIds : deleteVideoStart(s, u, v)
    \/ \E s \in Slots : deleteVideoDelete(s)
    \/ \E s \in Slots, u \in Ids, v \in EntIds : togglePublishStatusStart(s, u, v)
    \/ \E s \in Slots : togglePublishStatusUpdate(s)
    \/ \E s \in Slots, u \in Ids, c \in EntIds, t \in UpdateTexts :
          updateCommentStart(s, u, c, t)
    \/ \E s \in Slots : updateCommentUpdate(s)
    \/ \E s \in Slots, u \in Ids, c \in EntIds : deleteCommentStart(s, u, c)
    \/ \E s \in Slots : deleteCommentDelete(s)
    \/ \E s \in Slots, u \in Ids, t \in EntIds, x \in UpdateTexts :
          updateTweetStart(s, u, t, x)
    \/ \E s \in Slots : updateTweetUpdate(s)
    \/ \E s \in Slots, u \in Ids, t \in EntIds : deleteTweetStart(s, u, t)
    \/ \E s \in Slots : deleteTweetDelete(s)
    \/ \E s \in Slots, u \in Ids, p \in EntIds, v \in EntIds :
          addVideoToPlaylistStart(s, u, p, v)
    \/ \E s \in Slots : addVideoToPlaylistFind(s)
    \/ \E s \in Slots : addVideoToPlaylistPush(s)
    \/ \E s \in Slots, u \in Ids, p \in EntIds, v \in EntIds :
          removeVideoFromPlaylistStart(s, u, p, v)
    \/ \E s \in Slots : removeVideoFromPlaylistPull(s)
    \/ \E s \in Slots, u \in Ids, p \in EntIds : deletePlaylistStart(s, u, p)
    \/ \E s \in Slots : deletePlaylistDelete(s)
    \/ \E s \in Slots, u \in Ids, p \in EntIds, t \in UpdateTexts :
          updatePlaylistStart(s, u, p, t)
    \/ \E s \in Slots : updatePlaylistUpdate(s)

SpecOwner == InitContent /\ [][NextOwner]_vars

\* --------------------------------------------------------------- toggles
\* The like and subscription toggles of the two identities.
NextToggle ==
    \/ \E s \in Slots, u \in Ids, v \in TargetIds : toggleVideoLikeStart(s, u, v)
    \/ \E s \in Slots : toggleVideoLikeWrite(s)
    \/ \E s \in Slots, u \in Ids, c \in {1} : toggleCommentLikeStart(s, u, c)
    \/ \E s \in Slots : toggleCommentLikeWrite(s)
    \/ \E s \in Slots, u \in Ids, t \in {1} : toggleTweetLikeStart(s, u, t)
    \/ \E s \in Slots : toggleTweetLikeWrite(s)
    \/ \E s \in Slots, u \in Ids, c \in Ids : toggleSubscriptionStart(s, u, c)
    \/ \E s \in Slots : toggleSubscriptionFind(s)
    \/ \E s \in Slots : toggleSubscriptionWrite(s)

SpecToggle == InitContent /\ [][NextToggle]_vars

\* ============================================================== properties
Done(s) == req[s].pc = "done"
Refreshed(s) == req[s].kind = "refresh" /\ Done(s) /\ req[s].resp.status = 200
Present(tok) == tok \notin {Undef, Null}
Quiet == \A s \in Slots : ~InFlight(s)
\* Slot s hands its response in this step.
Returns(s) ==
    /\ req'[s].pc = "done"
    /\ InFlight(s) \/ (nreq' = nreq + 1 /\ FreeSlot(s))

\* C1 - reuse detection: a refresh request that presents a token with which
\* an earlier refresh has already succeeded is answered 401.
C1_ReuseAlwaysRejected ==
    \A s \in Slots :
        (req[s].kind = "refresh" /\ Done(s) /\ req[s].reuse)
            => req[s].resp.status = 401

\* C2 - rotation: the refresh token of a successful refresh differs from the
\* token presented.
C2_RotationYieldsFreshToken ==
    \A s \in Slots : Refreshed(s) => req[s].resp.refreshToken # req[s].inc

\* C3 as stated - a login with the identity's password, or a refresh
\* presenting the stored token, that runs alone on its identity returns 200,
\* and the stored token is then the one in the response.
C3_StoredEqualsReturnedAnyToken ==
    [][\A s \in Slots :
         ( /\ Returns(s)
           /\ req'[s].solo
           /\ \/ req'[s].kind = "login" /\ req'[s].pwOk = "yes"
              \/ req'[s].kind = "refresh" /\ req'[s].wasStored )
         => /\ req'[s].resp.status = 200
            /\ db'[req'[s].uid].refreshToken = req'[s].resp.refreshToken]_vars

\* C3 as amended - the same, for a refresh whose stored token has not expired
\* when the request arrives.
C3_StoredEqualsReturned ==
    [][\A s \in Slots :
         ( /\ Returns(s)
           /\ req'[s].solo
           /\ \/ req'[s].kind = "login" /\ req'[s].pwOk = "yes"
              \/ req'[s].kind = "refresh" /\ req'[s].wasStored /\ req'[s].fresh )
         => /\ req'[s].resp.status = 200
            /\ db'[req'[s].uid].refreshToken = req'[s].resp.refreshToken]_vars

C3_Witness ==
    \E s \in Slots :
        /\ Refreshed(s) /\ req[s].solo /\ req[s].wasStored /\ req[s].fresh
        /\ db[req[s].uid].refreshToken = req[s].resp.refreshToken
        /\ req[s].resp.refreshToken # req[s].inc

\* Two refresh requests that overlapped in time, presented the same token and
\* both returned 200, with two different tokens that are both new.
TwoPairs(a, b) ==
    /\ a # b /\ Refreshed(a) /\ Refreshed(b)
    /\ req[a].inc = req[b].inc
    /\ (a \in req[b].with \/ b \in req[a].with)
    /\ req[a].resp.refreshToken # req[b].resp.refreshToken
    /\ req[a].resp.refreshToken # req[a].inc
    /\ req[b].resp.refreshToken # req[b].inc

\* C4 as stated - single use under concurrency: a token presented by two
\* concurrent refresh requests is never exchanged for two new pairs.
C4_SingleUseUnderConcurrency ==
    \A a, b \in Slots : ~TwoPairs(a, b)

\* C4 as amended - a refresh request goes on to issue tokens only if the
\* stored token is the presented one at the moment it reads the store; two
\* concurrent requests can both do so before either write lands.
C4_ExchangeNeedsMatchAtRead ==
    [][\A s \in Slots :
         (req[s].pc = "refFind" /\ req'[s].pc = "gen")
            => db[req[s].uid].refreshToken = req[s].inc]_vars

C4_Witness ==
    \E a, b \in Slots : TwoPairs(a, b)

\* The refresh tokens signed so far for an identity, and the latest of them.
Issued(id) ==
    {t \in handed : t.id = id}
      \cup {req[s].newRefresh : s \in {o \in Slots : req[o].pc = "save" /\ req[o].uid = id}}
LastIssued(id) ==
    IF Issued(id) = {} THEN NoTok
    ELSE CHOOSE t \in Issued(id) : \A t2 \in Issued(id) : t2.iat <= t.iat

C6_RaceLoserRejected ==
    \A s \in Slots :
        (req[s].kind = "refresh" /\ Done(s) /\ req[s].loser)
            => req[s].resp.status = 401

\* C7 - logout invalidation: a refresh presenting the last token issued to an
\* identity that has logged out, and not logged in since, is answered 401.
C7_LogoutInvalidates ==
    \A s \in Slots :
        (req[s].kind = "refresh" /\ Done(s) /\ req[s].afterLogout)
            => req[s].resp.status = 401

\* C8 - login supersedes: a refresh presenting a token that was handed out
\* before a login of its identity succeeded is answered 401.
C8_LoginSupersedes ==
    \A s \in Slots :
        (req[s].kind = "refresh" /\ Done(s) /\ req[s].stale)
            => req[s].resp.status = 401

\* C9 - a login with a wrong password for an existing identity is answered
\* 401 without tokens, and no step of it changes the store.
C9_FailedLoginUntouched ==
    [][\A s \in Slots :
         (Returns(s) /\ req'[s].kind = "login" /\ req'[s].pwOk = "no")
            => /\ req'[s].resp.status = 401
               /\ req'[s].resp.accessToken = NoTok
               /\ req'[s].resp.refreshToken = NoTok
               /\ db' = db
               /\ handed' = handed]_vars

C9_Witness ==
    \E s \in Slots :
        /\ req[s].kind = "login" /\ Done(s) /\ req[s].pwOk = "no"
        /\ req[s].resp.status = 401
        /\ Present(db[req[s].uid].refreshToken)

\* C10 - a refresh whose verified token is not the stored one is answered 401
\* and leaves the store as it was.
C10_RejectedRefreshChangesNothing ==
    [][\A s \in Slots :
         (Returns(s) /\ req'[s].kind = "refresh" /\ req'[s].matched = "no")
            => /\ req'[s].resp.status = 401
               /\ db' = db]_vars

C10_Witness ==
    \E s \in Slots :
        /\ req[s].kind = "refresh" /\ Done(s) /\ req[s].matched = "no"
        /\ req[s].resp.status = 401
        /\ db[req[s].uid].refreshToken = Null

\* A refresh request that presented a token and failed.
FailedRefresh(s) ==
    /\ req[s].kind = "refresh" /\ Done(s)
    /\ req[s].inc # NoTok /\ req[s].resp.status # 200

\* C11 - undifferentiated failure: any two refresh requests that presented a
\* token and failed carry the same response, status 401 and the same message.
C11_UndifferentiatedFailure ==
    \A a, b \in Slots :
        (FailedRefresh(a) /\ FailedRefresh(b))
        => /\ req[a].resp.status = 401
           /\ req[a].resp = req[b].resp

\* C12 - a refresh presenting a refresh token whose expiry has passed when the
\* request arrives is answered 401 and changes nothing in the store, also
\* when the token is the stored one.
C12_ExpiredRefreshRejected ==
    [][\A s \in Slots :
         ( /\ Returns(s) /\ req'[s].kind = "refresh"
           /\ req'[s].inc.cls = "refresh" /\ ~req'[s].fresh )
         => /\ req'[s].resp.status = 401
            /\ db' = db
            /\ handed' = handed]_vars

C12_Witness ==
    \E s \in Slots :
        /\ req[s].kind = "refresh" /\ Done(s)
        /\ req[s].inc.cls = "refresh" /\ ~req[s].fresh /\ req[s].wasStored
        /\ req[s].resp.status = 401
        /\ db[req[s].inc.id].refreshToken = req[s].inc

\* C13 - class separation: a refresh presenting a token signed with the access
\* secret, of any identity, is answered 401 by the verification itself (it
\* does not go on to read the store) and changes no state; a token that a
\* refresh succeeded with was signed with the refresh secret.
C13_AccessTokenNotExchanged ==
    [][\A s \in Slots :
         /\ ( nreq' = nreq + 1 /\ FreeSlot(s)
               /\ req'[s].kind = "refresh" /\ req'[s].inc.cls = "access" )
              => /\ req'[s].pc = "done"
                 /\ req'[s].resp.status = 401
                 /\ db' = db
                 /\ hist' = hist
         /\ ( Returns(s) /\ req'[s].kind = "refresh" /\ req'[s].resp.status = 200 )
              => req'[s].inc.cls = "refresh"]_vars

C13_Witness ==
    \E s \in Slots :
        /\ req[s].kind = "refresh" /\ Done(s)
        /\ req[s].inc.cls = "access" /\ now < req[s].inc.exp
        /\ Exists(req[s].inc.id)
        /\ req[s].resp.status = 401

\* C14 - registration uniqueness: a registration with all its fields whose
\* username or email is that of an identity in the store when it arrives is
\* answered 409, and the store is left as it was.
C14_RegistrationUniqueness ==
    [][\A s \in Slots :
         (Returns(s) /\ req'[s].kind = "register" /\ req'[s].clash = "exact")
            => /\ req'[s].resp.status = 409
               /\ db' = db]_vars

C14_Witness ==
    \E s \in Slots, i \in Registered :
        /\ req[s].kind = "register" /\ Done(s) /\ req[s].clash = "exact"
        /\ req[s].resp.status = 409
        /\ db[i].username = "bob" /\ db[i].email = "a@x.com"

\* C15 - uniqueness invariant: no two identities of the store have the same
\* username or the same email, letter case set aside.
C15_UniqueIdentities ==
    \A i, j \in Registered :
        i # j => /\ db[i].username \notin Spellings(db[j].username)
                 /\ db[i].email \notin Spellings(db[j].email)

\* Two identities in the store, after a second request for a name or an email
\* already taken was turned away by the unique index.
C15_Witness ==
    /\ Cardinality(Registered) = 2
    /\ \E s \in Slots :
          /\ req[s].kind \in {"register", "updateAccount"} /\ Done(s)
          /\ req[s].resp.msg = "E11000 duplicate key"

\* C16 - a registration whose username differs in letter case only from the
\* username of an identity in the store is answered 409 and creates nothing.
C16_CaseInsensitiveCollision ==
    [][\A s \in Slots :
         (Returns(s) /\ req'[s].kind = "register" /\ req'[s].clash = "case")
            => /\ req'[s].resp.status = 409
               /\ db' = db]_vars

C16_Witness ==
    \E s \in Slots :
        /\ req[s].kind = "register" /\ Done(s) /\ req[s].clash = "case"
        /\ req[s].resp.status = 409
        /\ Cardinality(Registered) = 1

\* The responses that carry the identity of a registration or of a login.
SuccessBody(s) ==
    /\ Done(s)
    /\ \/ req[s].kind = "register" /\ req[s].resp.status = 201
       \/ req[s].kind = "login" /\ req[s].resp.status = 200

\* C17 - sanitized identity: the identity object in the body of a successful
\* registration or login carries neither the password nor the refresh token.
C17_SanitizedIdentity ==
    \A s \in Slots :
        SuccessBody(s) => /\ req[s].resp.user # {}
                          /\ "password" \notin req[s].resp.user
                          /\ "refreshToken" \notin req[s].resp.user

\* A login answered while the identity has a refresh token in the store.
C17_Witness ==
    \E s \in Slots :
        /\ SuccessBody(s) /\ req[s].kind = "login"
        /\ Present(db[req[s].uid].refreshToken)
        /\ req[s].resp.user = {"username", "email"}

\* C18 - no response of any operation, successful or failed, carries the
\* password of an identity.
C18_PasswordNeverDisclosed ==
    \A s \in Slots : Done(s) => "password" \notin req[s].resp.user

\* A profile update answered with the identity in the body.
C18_Witness ==
    \E s \in Slots :
        /\ Done(s) /\ req[s].kind \in {"updateAccount", "avatar", "coverImage"}
        /\ req[s].resp.status = 200
        /\ "email" \in req[s].resp.user

\* C19 - a successful change of password leaves the stored refresh token as
\* it was, and a refresh that presents the stored token of an identity whose
\* password was changed (unexpired, alone on the identity) is answered 200.
C19_PasswordChangeKeepsSession ==
    [][\A s \in Slots :
         /\ ( /\ req[s].kind = "changePassword" /\ req[s].pc = "pwSave"
               /\ req'[s].resp.status = 200 )
              => db'[req[s].uid].refreshToken = db[req[s].uid].refreshToken
         /\ ( /\ Returns(s) /\ req'[s].kind = "refresh"
               /\ req'[s].afterChange /\ req'[s].wasStored
               /\ req'[s].fresh /\ req'[s].solo )
              => req'[s].resp.status = 200]_vars

C19_Witness ==
    \E s \in Slots :
        /\ Refreshed(s) /\ req[s].afterChange /\ req[s].wasStored /\ req[s].solo

\* C20 - after a successful change of password from O to N, N # O, a login
\* that arrives before the next successful change is answered 200 if it
\* sends N and 401 if it sends O.
C20_PasswordChangeTakesEffect ==
    [][\A s \in Slots :
         (Returns(s) /\ req'[s].kind = "login")
            => /\ req'[s].expect = "new" => req'[s].resp.status = 200
               /\ req'[s].expect = "old" => req'[s].resp.status = 401]_vars

\* A login with the old password of a change, and one with the new.
LoginAfterChange(s, which) ==
    /\ Done(s) /\ req[s].kind = "login" /\ req[s].expect = which
    /\ pwChanged[req[s].uid] # <<>>
    /\ db[req[s].uid].password = Hash(pwChanged[req[s].uid][2])

C20_Witness ==
    \E s \in Slots : LoginAfterChange(s, "new") /\ req[s].resp.status = 200
C20_WitnessOld ==
    \E s \in Slots : LoginAfterChange(s, "old") /\ req[s].resp.status = 401

\* C21 - a change of password whose old password is not the identity's is
\* answered 401, and the stored password and refresh token are left as they
\* were.
C21_WrongOldPasswordRejected ==
    [][\A s \in Slots :
         (Returns(s) /\ req'[s].kind = "changePassword" /\ req'[s].pwOk = "no")
            => /\ req'[s].resp.status = 401
               /\ db' = db]_vars

\* C22 - a login whose username or email is that of no identity in the store
\* is answered 401 and changes no state.
C22_UnknownIdentityRejected ==
    [][\A s \in Slots :
         (Returns(s) /\ req'[s].kind = "login" /\ req'[s].known = "no")
            => /\ req'[s].resp.status = 401
               /\ db' = db
               /\ hist' = hist]_vars

\* C23 - a login, or a refresh whose token has passed its checks, in which
\* the signing or the store write fails is answered 500, and the stored
\* refresh token is left as it was.
C23_InternalFailureIs500 ==
    [][\A s \in Slots :
         (Returns(s) /\ req'[s].fault)
            => /\ req'[s].resp.status = 500
               /\ db' = db]_vars

\* A login or refresh answered 200.
TokensReturned(s) ==
    /\ Done(s) /\ req[s].kind \in {"login", "refresh"}
    /\ req[s].resp.status = 200

\* C26 - cookie attributes: a successful login or refresh sets the accessToken
\* and refreshToken cookies to the tokens of the body, httpOnly, and secure
\* exactly when the request came over https.
C26_CookieAttributes ==
    \A s \in Slots :
        TokensReturned(s)
            => LET r == req[s].resp
               IN /\ r.accessToken.cls = "access"
                  /\ r.refreshToken.cls = "refresh"
                  /\ r.cookies.accessToken = r.accessToken
                  /\ r.cookies.refreshToken = r.refreshToken
                  /\ r.cookies.httpOnly
                  /\ r.cookies.secure <=> (req[s].protocol = "https")

\* A login over http beside a refresh over https.
C26_Witness ==
    \E a, b \in Slots :
        /\ TokensReturned(a) /\ req[a].kind = "login" /\ req[a].protocol = "http"
        /\ ~req[a].resp.cookies.secure
        /\ TokensReturned(b) /\ req[b].kind = "refresh" /\ req[b].protocol = "https"
        /\ req[b].resp.cookies.secure

\* C24 - a registration in which a required field is missing, or empty once
\* trimmed, is answered 400 in the step it arrives in, before the store is
\* looked at or anything is uploaded, and creates nothing.
C24_RegistrationValidation ==
    [][\A s \in Slots :
         ( /\ nreq' = nreq + 1 /\ FreeSlot(s)
           /\ req'[s].kind = "register" /\ req'[s].valid = "no" )
         => /\ req'[s].pc = "done"
            /\ req'[s].resp.status = 400
            /\ db' = db]_vars

\* A registration turned away for a blank field while identities exist.
C24_Witness ==
    \E s \in Slots :
        /\ req[s].kind = "register" /\ Done(s) /\ req[s].valid = "no"
        /\ req[s].resp.status = 400
        /\ Registered # {}

\* C25 - avatar required: a registration with valid fields that collide with
\* nothing is answered 400 and creates nothing when no file was sent, when
\* files were sent without an avatar, and when the upload of the avatar
\* failed.
C25_AvatarRequired ==
    [][\A s \in Slots :
         (Returns(s) /\ req'[s].kind = "register" /\ req'[s].avatarCase # "n/a")
            => /\ req'[s].resp.status = 400
               /\ db' = db]_vars

\* C30 - concurrent registrations with a colliding key: a registration that
\* passed its existence check and finds the key taken when it creates is
\* answered 409 and creates nothing.
C30_ConcurrentRegistrationConflict ==
    [][\A s \in Slots :
         (Returns(s) /\ req'[s].kind = "register" /\ req'[s].clash = "race")
            => /\ req'[s].resp.status = 409
               /\ db' = db]_vars

\* The kinds of request that pass through the Auth Gate.
Protected ==
    {"logout", "changePassword", "currentUser", "updateAccount", "avatar", "coverImage"}

\* C27 - a request to a protected route whose access token has expired, though
\* rightly signed and of an existing identity, is answered 401 by the Auth
\* Gate in the step it arrives in: its handler does not run, nothing changes.
C27_ExpiredAccessRejected ==
    [][\A s \in Slots :
         ( /\ nreq' = nreq + 1 /\ FreeSlot(s)
           /\ req'[s].kind \in Protected /\ req'[s].expired )
         => /\ req'[s].pc = "done"
            /\ req'[s].resp.status = 401
            /\ req'[s].resp.user = {}
            /\ db' = db
            /\ hist' = hist]_vars

\* An expired access token turned away on a route that would have written.
C27_Witness ==
    \E s \in Slots :
        /\ Done(s) /\ req[s].kind \in {"changePassword", "updateAccount"}
        /\ req[s].expired /\ req[s].resp.status = 401

\* C28 - once an identity has logged out and no login of it is under way or
\* has succeeded since, it has no refresh token in the store (stated for the
\* build whose logout writes null; in the other the token is never cleared).
C28_NoResurrectionAfterLogout ==
    \A id \in loggedOut :
        ( /\ ~stripsUndef
          /\ \A s \in Slots : ~(InFlight(s) /\ req[s].kind = "login" /\ req[s].uid = id) )
        => ~Present(db[id].refreshToken)

\* The responses of the profile operations.
ProfileResponse(s) ==
    Done(s) /\ req[s].kind \in {"currentUser", "updateAccount", "avatar", "coverImage"}

\* C29 - no response of a profile operation carries the stored refresh token
\* of the identity, and the only responses with a refresh token are those of
\* login and refresh.
C29_RefreshTokenNotDisclosed ==
    \A s \in Slots :
        /\ ProfileResponse(s) => "refreshToken" \notin req[s].resp.user
        /\ (Done(s) /\ req[s].resp.refreshToken # NoTok)
              => req[s].kind \in {"login", "refresh"}

\* C31 - persist before return: the refresh token in a 200 response of login
\* or refresh is the identity's stored token when the response leaves, or is
\* the token the handler read from the store (the save then had nothing to
\* write); so every token handed out was at some time the stored one.
C31_PersistBeforeReturn ==
    [][\A s \in Slots :
         ( /\ Returns(s) /\ req'[s].kind \in {"login", "refresh"}
           /\ req'[s].resp.refreshToken # NoTok )
         => \/ db'[req[s].uid].refreshToken = req'[s].resp.refreshToken
            \/ req[s].seen = req'[s].resp.refreshToken]_vars

\* A refresh answered with a token signed later than the one it presented,
\* which is the stored one.
C31_Witness ==
    \E s \in Slots :
        /\ Refreshed(s)
        /\ req[s].resp.refreshToken.iat > req[s].inc.iat
        /\ db[req[s].uid].refreshToken = req[s].resp.refreshToken
        /\ req[s].resp.refreshToken \in handed

\* A step of a login, a refresh or a logout in slot s.
SessionStep(s) ==
    /\ req'[s].kind \in {"login", "refresh", "logout"}
    /\ \/ InFlight(s) /\ req'[s].pc # req[s].pc
       \/ nreq' = nreq + 1 /\ FreeSlot(s)

\* C32 - session writes never touch the password: no step of a login, a
\* refresh or a logout changes the stored password hash of any identity, so
\* the passwords that verify before it are those that verify after it.
C32_SessionKeepsPassword ==
    [][\A s \in Slots :
         SessionStep(s)
            => \A i \in Registered :
                  /\ db'[i].password = db[i].password
                  /\ \A pw \in Passwords :
                        isPasswordCorrect(pw, db'[i].password)
                            <=> isPasswordCorrect(pw, db[i].password)]_vars

\* A login answered 200 beside a change of password of the same identity that
\* ran while it was in flight, the new password being the stored one.
C32_Witness ==
    \E s, o \in Slots :
        /\ s # o
        /\ TokensReturned(s) /\ req[s].kind = "login"
        /\ Done(o) /\ req[o].kind = "changePassword" /\ req[o].resp.status = 200
        /\ req[o].uid = req[s].uid
        /\ (o \in req[s].with \/ s \in req[o].with)
        /\ pwChanged[req[s].uid] # <<>>
        /\ pwChanged[req[s].uid][1] # pwChanged[req[s].uid][2]
        /\ db[req[s].uid].password = Hash(pwChanged[req[s].uid][2])
        /\ db[req[s].uid].refreshToken = req[s].resp.refreshToken

\* C33 - logout does not revoke access tokens: a request to a protected route
\* whose access token is rightly signed, unexpired and of an identity that has
\* logged out since the token was issued passes the Auth Gate: it is not
\* answered 401 and runs for that identity.
C33_LogoutKeepsAccessTokens ==
    [][\A s \in Slots :
         ( /\ nreq' = nreq + 1 /\ FreeSlot(s)
           /\ req'[s].kind \in Protected
           /\ req'[s].afterLogout /\ ~req'[s].expired )
         => /\ req'[s].uid \in Registered
            /\ ~(req'[s].pc = "done" /\ req'[s].resp.status = 401)]_vars

\* The profile read with an access token of an identity whose logout has
\* cleared its refresh token.
C33_Witness ==
    \E s \in Slots :
        /\ Done(s) /\ req[s].kind = "currentUser"
        /\ req[s].afterLogout /\ ~req[s].expired
        /\ req[s].resp.status = 200
        /\ req[s].uid \in loggedOut
        /\ db[req[s].uid].refreshToken = Null

\* C34 - carrier precedence: a refresh works on the token of the cookie when
\* the cookie is there and not empty, and on the body field otherwise; with a
\* cookie token that fails verification the request is answered 401 in the
\* step it arrives in, whatever the body field holds.
C34_CookieBeforeBody ==
    [][\A s \in Slots :
         (nreq' = nreq + 1 /\ FreeSlot(s) /\ req'[s].kind = "refresh")
         => LET cookie == req'[s].sent[1]
                body == req'[s].sent[2]
            IN /\ cookie \notin {NoTok, Empty} => req'[s].inc = cookie
               /\ cookie \in {NoTok, Empty} => req'[s].inc = body
               /\ (cookie \notin {NoTok, Empty}
                     /\ JwtVerify(cookie, "refresh", now) # "ok")
                  => /\ req'[s].pc = "done"
                     /\ req'[s].resp.status = 401
                     /\ db' = db]_vars

\* The stored token sent in the body: beside an undecodable cookie it is
\* answered 401, with no cookie it is exchanged.
C34_Witness ==
    \E a, b \in Slots :
        /\ Done(a) /\ req[a].kind = "refresh" /\ req[a].resp.status = 401
        /\ req[a].sent[1] = Garbage /\ req[a].sent[2].cls = "refresh"
        /\ req[a].wasStored = FALSE
        /\ Refreshed(b) /\ req[b].sent[1] = NoTok
        /\ req[b].sent[2] = req[a].sent[2]

\* The operations whose responses the envelope rule is stated for.
Enveloped == {"register", "login", "logout", "refresh", "changePassword"}

\* C35 - the HTTP status of every response of register, login, logout,
\* refresh and change-password equals the statusCode of its envelope (looked
\* at for the responses built from an ApiResponse or an ApiError).
C35_StatusMirrorsEnvelope ==
    \A s \in Slots :
        (Done(s) /\ req[s].kind \in Enveloped /\ req[s].resp.statusCode # 0)
            => req[s].resp.status = req[s].resp.statusCode

\* The handlers that change or delete a document after an owner check, and
\* the collection each works on.
OwnerGuarded ==
    {"updateVideo", "deleteVideo", "togglePublishStatus", "updateComment",
     "deleteComment", "updateTweet", "deleteTweet", "addVideoToPlaylist",
     "removeVideoFromPlaylist", "deletePlaylist", "updatePlaylist"}
CollOf(kind) ==
    IF kind \in {"updateVideo", "deleteVideo", "togglePublishStatus"} THEN "videos"
    ELSE IF kind \in {"updateComment", "deleteComment"} THEN "comments"
    ELSE IF kind \in {"updateTweet", "deleteTweet"} THEN "tweets"
    ELSE "playlists"
\* Slot s takes a step.
Acts(s) ==
    \/ InFlight(s) /\ req'[s].pc # req[s].pc
    \/ nreq' = nreq + 1 /\ FreeSlot(s)

\* C36 - owner-only mutation: a request to change or delete a video, comment,
\* tweet or playlist by an identity that is not its owner ends in the step it
\* arrives in with the collections as they were, answered 403 when its fields
\* are well formed (400 by the validation otherwise); and a step of such a
\* handler that changes a document is a step of the document's owner.
C36_OwnerOnlyMutation ==
    [][\A s \in Slots :
         (Acts(s) /\ req'[s].kind \in OwnerGuarded)
         => /\ (nreq' = nreq + 1 /\ req'[s].isOwner = "no")
                 => /\ req'[s].pc = "done"
                    /\ store' = store
                    /\ req'[s].resp.status = IF req'[s].valid = "yes" THEN 403 ELSE 400
            /\ store' # store
                 => store[CollOf(req[s].kind)][req[s].target].owner = req[s].uid]_vars

\* A request of the other identity turned away from a document that its owner
\* has changed before, and that is still there.
C36_Witness ==
    \E s \in Slots :
        /\ Done(s) /\ req[s].kind \in OwnerGuarded
        /\ req[s].isOwner = "no" /\ req[s].valid = "yes"
        /\ req[s].resp.status = 403
        /\ store[CollOf(req[s].kind)][req[s].target].exists
        /\ store[CollOf(req[s].kind)][req[s].target].content = "v1"
        /\ store[CollOf(req[s].kind)][req[s].target].owner # req[s].uid

\* C38 - no duplicate playlist entries: in every reachable state a playlist
\* holds each video at most once.
C38_NoDuplicatePlaylistEntries ==
    \A p \in EntIds :
        LET videos == store["playlists"][p].videos
        IN \A j, k \in 1..Len(videos) : j # k => videos[j] # videos[k]

\* Whether the user of request r likes, or is subscribed to, its target in
\* the collections ls and ss.
Holds(r, ls, ss) ==
    IF r.kind = "toggleSubscription"
    THEN \E d \in ss : d.subscriber = r.uid /\ d.channel = r.target
    ELSE \E l \in ls : l[FieldOf(r.kind)] = r.target /\ l.likedBy = r.uid
\* At most one like per user and video, comment or tweet, and at most one
\* subscription per subscriber and channel.
AtMostOneRecord ==
    /\ \A l1, l2 \in likes :
          ( /\ l1.likedBy = l2.likedBy
            /\ \E f \in LikeFields : l1[f] # 0 /\ l1[f] = l2[f] ) => l1 = l2
    /\ \A d1, d2 \in subscriptions :
          (d1.subscriber = d2.subscriber /\ d1.channel = d2.channel) => d1 = d2

\* C37 - toggle is an involution with at most one record: there is at most
\* one like per user and target and one subscription per subscriber and
\* channel in every state; and a toggle that runs with no other request of
\* its user in flight is answered 200, leaves the user's liked or subscribed
\* state the opposite of what it was, and its flag is the state it leaves.
C37_ToggleInvolution ==
    [][/\ AtMostOneRecord'
       /\ \A s \in Slots :
            ( /\ Returns(s) /\ req'[s].kind \in ToggleKinds
              /\ req'[s].valid = "yes" /\ req'[s].solo )
            => /\ req'[s].resp.status = 200
               /\ Holds(req'[s], likes', subscriptions') = (req'[s].before = "no")
               /\ req'[s].resp.flag
                    = IF Holds(req'[s], likes', subscriptions') THEN "true" ELSE "false"]_vars

====
